---------------------------- MODULE Spec2Model ----------------------------
(***************************************************************************)
(* A model of the Harvest plugin's query language (HQL): parseQuery,      *)
(* parseTimeRange, renderReport and the code block processor hqlProcessor *)
(* of src/main.ts.                                                         *)
(*                                                                         *)
(* Strings are sequences of one-character strings, so that trim, split,   *)
(* toUpperCase, includes, replace, parseInt, Date parsing and padStart    *)
(* are computed, not assumed.  A JavaScript Date is an instant counted in *)
(* hours since 1970-01-01T00:00Z; its local fields are read under the     *)
(* local UTC offset tz (whole hours, no daylight saving changes).         *)
(***************************************************************************)
EXTENDS Integers, Sequences, FiniteSets, TLC

VARIABLES
    \* The clock and the engine.
    now,        \* the clock: hours since the epoch (UTC) at the first new Date()
    tz,         \* the local UTC offset of the process, in hours
    lenient,    \* TRUE when the engine's Date parser rolls over a day past the month's end
    \* One call of parseQuery.
    source,     \* the text handed to parseQuery
    words,      \* the words the source text was written from
    clock2,     \* the clock at the second new Date() of parseTimeRange
    pc,         \* "input" before parseQuery has run, "parsed" after
    result,     \* what parseQuery returned or threw
    \* The plugin and the host.
    credentials,  \* settings.personalAccessToken and settings.accountId are both set
    userId,       \* HarvestPlugin.userId; 0 stands for null
    notices,      \* the texts of the Notices shown
    doc,          \* the lines of the document that holds the blocks
    \* One execution of hqlProcessor per block.
    blockSource,  \* the source text of the block
    bpc,          \* where the execution is
    el,           \* what the block's element displays
    query,        \* the parsed query
    response,     \* what became of the request: "none", "sent", "data", "null" or "nouser"
    entries,      \* what getTimeEntries resolved to
    pendingDoc,   \* the lines handed to vault.modify
    blockOf,      \* the block of the document the execution was started for
    calls,        \* how often the execution called getTimeEntries, vault.read, vault.modify
    fileContent,  \* the lines vault.read returned
    \* One call of renderReport.
    rEntries,     \* the entries handed to renderReport
    rQuery,       \* the query handed to renderReport
    container,    \* what renderReport built in its container, or threw
    \* The running timer.
    service,      \* the id of the user's running time entry in the service; 0 for none
    runningTimer, \* HarvestPlugin.runningTimer: the id of its entry; 0 stands for null
    statusBar,    \* what the status bar item displays
    polls,        \* the calls of updateRunningTimer whose request is in flight
    stop,         \* the call of stopTimer made by the Stop timer command
    lastStop,     \* what the last Stop timer command did, and the service as it was then
    todays,       \* the user's time entries of today in the service
    starting,        \* the call of startTimer in flight
    lastStart,    \* the timer-changing requests the last call of startTimer sent
    lastToggle,   \* what the last call of toggleTimer did after its refresh
    commands,     \* the number of calls of the stop command, startTimer and toggleTimer
    identity,     \* "sent" while a call of fetchCurrentUserId awaits its request
    fetching,     \* a call of getTimeEntries, and what the last call returned
    projectCache, \* HarvestPlugin.projectCache
    fetches       \* the calls of fetchAllTrackableProjects

parseVars == <<source, words, clock2, pc, result>>

pluginVars == <<credentials, userId, notices, doc>>

blockVars == <<blockSource, bpc, el, query, response, entries, pendingDoc, blockOf, calls,
              fileContent>>

renderVars == <<rEntries, rQuery, container>>

timerVars == <<service, runningTimer, statusBar, polls, stop, lastStop, todays, starting,
              lastStart, lastToggle, commands, identity, fetching, projectCache,
              fetches>>

vars == <<now, tz, lenient, parseVars, pluginVars, blockVars, renderVars, timerVars>>

(***************************************************************************)
(* Characters and strings.                                                 *)
(***************************************************************************)
LowerLetters == <<"a","b","c","d","e","f","g","h","i","j","k","l","m",
                  "n","o","p","q","r","s","t","u","v","w","x","y","z">>

UpperLetters == <<"A","B","C","D","E","F","G","H","I","J","K","L","M",
                  "N","O","P","Q","R","S","T","U","V","W","X","Y","Z">>

DigitChars == <<"0","1","2","3","4","5","6","7","8","9">>

\* The characters /\s/ matches, among those of the input alphabet.
Whitespace == {" ", "\t", "\n"}

IsLower(c) == \E i \in 1..26 : LowerLetters[i] = c

\* String.prototype.toUpperCase on one character.
UpperChar(c) ==
    IF IsLower(c) THEN UpperLetters[CHOOSE i \in 1..26 : LowerLetters[i] = c]
    ELSE c

\* String.prototype.toUpperCase.
toUpperCase(s) == [i \in 1..Len(s) |-> UpperChar(s[i])]

IsDigit(c) == \E i \in 1..10 : DigitChars[i] = c

DigitVal(c) == (CHOOSE i \in 1..10 : DigitChars[i] = c) - 1

\* String.prototype.trim.
trim(s) ==
    IF \A i \in 1..Len(s) : s[i] \in Whitespace THEN <<>>
    ELSE LET first == CHOOSE i \in 1..Len(s) :
                         /\ s[i] \notin Whitespace
                         /\ \A j \in 1..(i-1) : s[j] \in Whitespace
             last  == CHOOSE i \in 1..Len(s) :
                         /\ s[i] \notin Whitespace
                         /\ \A j \in (i+1)..Len(s) : s[j] \in Whitespace
         IN  SubSeq(s, first, last)

\* String.prototype.split(/\s+/): the pieces between maximal runs of
\* whitespace; the empty string splits into one empty piece.
RECURSIVE SplitFrom(_, _, _)
SplitFrom(s, i, cur) ==
    IF i > Len(s) THEN <<cur>>
    ELSE IF s[i] \in Whitespace
         THEN LET next == CHOOSE j \in (i+1)..(Len(s)+1) :
                              /\ \A k \in i..(j-1) : s[k] \in Whitespace
                              /\ (j <= Len(s) => s[j] \notin Whitespace)
              IN  <<cur>> \o SplitFrom(s, next, <<>>)
         ELSE SplitFrom(s, i+1, Append(cur, s[i]))

splitWs(s) == SplitFrom(s, 1, <<>>)

\* Number.prototype.toString for a non-negative integer.
RECURSIVE NumStr(_)
NumStr(n) == IF n < 10 THEN <<DigitChars[n+1]>>
             ELSE NumStr(n \div 10) \o <<DigitChars[(n % 10) + 1]>>

\* String.prototype.padStart(2, '0').
padStart2(s) == IF Len(s) >= 2 THEN s ELSE IF Len(s) = 1 THEN <<"0">> \o s ELSE <<"0","0">>

(***************************************************************************)
(* The JavaScript Date object.  A valid Date is [nan |-> FALSE, t |-> h]  *)
(* with h the hours since the epoch; an Invalid Date has nan = TRUE.      *)
(***************************************************************************)
InvalidDate == [nan |-> TRUE, t |-> 0]

DateAt(h) == [nan |-> FALSE, t |-> h]

\* ECMAScript MakeDay for a month in 1..12 and any day number: the days
\* since the epoch of year-month-1, plus day - 1.
DaysFromCivil(y, m, d) ==
    LET yy  == IF m <= 2 THEN y - 1 ELSE y
        era == yy \div 400
        yoe == yy - era * 400
        mp  == (m + 9) % 12
        doy == (153 * mp + 2) \div 5 + d - 1
        doe == yoe * 365 + yoe \div 4 - yoe \div 100 + doy
    IN  era * 146097 + doe - 719468

\* ECMAScript YearFromTime, MonthFromTime (here 1..12) and DateFromTime.
CivilFromDays(z) ==
    LET zz  == z + 719468
        era == zz \div 146097
        doe == zz - era * 146097
        yoe == (doe - doe \div 1460 + doe \div 36524 - doe \div 146096) \div 365
        doy == doe - (365 * yoe + yoe \div 4 - yoe \div 100)
        mp  == (5 * doy + 2) \div 153
        d   == doy - (153 * mp + 2) \div 5 + 1
        m   == IF mp < 10 THEN mp + 3 ELSE mp - 9
        y   == yoe + era * 400 + (IF m <= 2 THEN 1 ELSE 0)
    IN  [y |-> y, m |-> m, d |-> d]

\* ECMAScript MakeDay(year, month, date) with a month index that may lie
\* outside 0..11 and a date that may lie outside the month.
MakeDay(y, m0, d) == DaysFromCivil(y + m0 \div 12, (m0 % 12) + 1, d)

\* LocalTime(t): the local day number and the local hour of an instant.
LocalDay(t, off) == (t + off) \div 24

LocalHour(t, off) == (t + off) % 24

getFullYear(date, off) == CivilFromDays(LocalDay(date.t, off)).y

\* Date.prototype.getMonth: 0..11.
getMonth(date, off) == CivilFromDays(LocalDay(date.t, off)).m - 1

getDate(date, off) == CivilFromDays(LocalDay(date.t, off)).d

\* Date.prototype.getDay: 0 is Sunday; 1970-01-01 was a Thursday.
getDay(date, off) == (LocalDay(date.t, off) + 4) % 7

\* Date.prototype.setDate(d): the day of the month is replaced, the local
\* year, month and time of day are kept; d outside the month rolls over.
setDate(date, off, d) ==
    DateAt(MakeDay(getFullYear(date, off), getMonth(date, off), d) * 24
           + LocalHour(date.t, off) - off)

\* new Date(year, monthIndex, day): local midnight.
NewDateYMD(y, m0, d, off) == DateAt(MakeDay(y, m0, d) * 24 - off)

\* The days of month m (1..12) of year y, as MakeDay sees them.
DaysInMonth(y, m) == DaysFromCivil(y + m \div 12, (m % 12) + 1, 1) - DaysFromCivil(y, m, 1)

AllDigits(s) == \A i \in 1..Len(s) : IsDigit(s[i])

\* The value of a string of decimal digits.
RECURSIVE DecVal(_)
DecVal(s) == IF Len(s) = 0 THEN 0
             ELSE DecVal(SubSeq(s, 1, Len(s) - 1)) * 10 + DigitVal(s[Len(s)])

\* new Date(string) on the date-only forms of the ECMAScript date time
\* string format, YYYY, YYYY-MM and YYYY-MM-DD, which are read as UTC
\* midnight.  A day in 1..31 that the month does not have is rolled over
\* into the next month by a lenient engine (V8) and is an Invalid Date to a
\* strict one.  Every other string of the input alphabet is an Invalid Date.
DateParse(s, len) ==
    LET year  == DecVal(SubSeq(s, 1, 4))
        month == DecVal(SubSeq(s, 6, 7))
        day   == DecVal(SubSeq(s, 9, 10))
        yearOk  == Len(s) >= 4 /\ AllDigits(SubSeq(s, 1, 4))
        monthOk == /\ Len(s) >= 7 /\ s[5] = "-" /\ AllDigits(SubSeq(s, 6, 7))
                   /\ month \in 1..12
        dayOk   == /\ Len(s) = 10 /\ s[8] = "-" /\ AllDigits(SubSeq(s, 9, 10))
                   /\ day \in 1..31
    IN  IF Len(s) = 4 /\ yearOk THEN DateAt(DaysFromCivil(year, 1, 1) * 24)
        ELSE IF Len(s) = 7 /\ yearOk /\ monthOk
             THEN DateAt(DaysFromCivil(year, month, 1) * 24)
        ELSE IF Len(s) = 10 /\ yearOk /\ monthOk /\ dayOk
             THEN IF day <= DaysInMonth(year, month) \/ len
                  THEN DateAt(DaysFromCivil(year, month, day) * 24)
                  ELSE InvalidDate
        ELSE InvalidDate

\* tokens[i] of a JavaScript array, 0-based: undefined past the end.
Undefined == <<"undefined">>

At(tokens, i) == IF i + 1 <= Len(tokens) THEN tokens[i + 1] ELSE Undefined

HexChars == <<"0","1","2","3","4","5","6","7","8","9","A","B","C","D","E","F">>

IsRadixDigit(c, radix) == \E i \in 1..radix : HexChars[i] = UpperChar(c)

RadixVal(c) == (CHOOSE i \in 1..16 : HexChars[i] = UpperChar(c)) - 1

\* The digits parseInt consumes: the longest prefix of s from position i
\* made of digits of the radix.
RECURSIVE ParseDigits(_, _, _, _, _)
ParseDigits(s, i, radix, acc, any) ==
    IF i <= Len(s) /\ IsRadixDigit(s[i], radix)
    THEN ParseDigits(s, i + 1, radix, acc * radix + RadixVal(s[i]), TRUE)
    ELSE [nan |-> ~any, n |-> acc]

\* parseInt(string) with no radix: an optional sign, an optional 0x or 0X
\* prefix selecting radix 16, then the longest prefix of digits; what
\* follows the digits is ignored, and NaN when there is no digit.
parseInt(s) ==
    LET signed == Len(s) >= 1 /\ s[1] \in {"+", "-"}
        start  == IF signed THEN 2 ELSE 1
        hex    == /\ Len(s) >= start + 1
                  /\ s[start] = "0" /\ UpperChar(s[start + 1]) = "X"
        r      == IF s = Undefined THEN [nan |-> TRUE, n |-> 0]
                  ELSE IF hex THEN ParseDigits(s, start + 2, 16, 0, FALSE)
                  ELSE ParseDigits(s, start, 10, 0, FALSE)
    IN  IF signed /\ s[1] = "-" THEN [nan |-> r.nan, n |-> 0 - r.n] ELSE r

(***************************************************************************)
(* The HQL parser.                                                         *)
(***************************************************************************)
LIST    == <<"L","I","S","T">>
SUMMARY == <<"S","U","M","M","A","R","Y">>
TODAY   == <<"T","O","D","A","Y">>
WEEK    == <<"W","E","E","K">>
MONTH   == <<"M","O","N","T","H">>
PAST    == <<"P","A","S","T">>
DAYS    == <<"D","A","Y","S">>
FROM    == <<"F","R","O","M">>
TO      == <<"T","O">>

\* An Error: its message, and the text interpolated into the message.
Error(msg, arg) == [msg |-> msg, arg |-> arg]

NoError == Error("", <<>>)

\* A call that threw e, and a call that returned a time range.
Throw(e) == [ok |-> FALSE, error |-> e, type |-> <<>>, from |-> <<>>, to |-> <<>>]

Range(from, to) == [ok |-> TRUE, error |-> NoError, type |-> <<>>, from |-> from, to |-> to]

\* formatDate: the local year, and the local month and day padded to two
\* digits.
formatDate(date, off) ==
    NumStr(getFullYear(date, off)) \o <<"-">>
    \o padStart2(NumStr(getMonth(date, off) + 1)) \o <<"-">>
    \o padStart2(NumStr(getDate(date, off)))

\* case 'TODAY' of parseTimeRange.
todayRange(today, off) == Range(formatDate(today, off), formatDate(today, off))

\* weekRange without the Sunday case: the week of a Sunday starts the day
\* after it.
weekRange_NoSundayCase(today, off) ==
    LET dayOfWeek      == getDay(today, off)
        firstDayOfWeek == setDate(today, off, getDate(today, off) - dayOfWeek + 1)
        to == setDate(firstDayOfWeek, off, getDate(firstDayOfWeek, off) + 6)
    IN  Range(formatDate(firstDayOfWeek, off), formatDate(to, off))

\* case 'WEEK' of parseTimeRange: Monday as first day.
weekRange(today, off) ==
    LET dayOfWeek      == getDay(today, off)
        firstDayOfWeek == setDate(today, off,
                              getDate(today, off) - dayOfWeek
                              + (IF dayOfWeek = 0 THEN -6 ELSE 1))
        to == setDate(firstDayOfWeek, off, getDate(firstDayOfWeek, off) + 6)
    IN  Range(formatDate(firstDayOfWeek, off), formatDate(to, off))

\* monthRange ending on day 30 of the month, whatever the month's length.
monthRange_Day30(today, off) ==
    LET from == NewDateYMD(getFullYear(today, off), getMonth(today, off), 1, off)
        to   == NewDateYMD(getFullYear(today, off), getMonth(today, off), 30, off)
    IN  Range(formatDate(from, off), formatDate(to, off))

\* case 'MONTH' of parseTimeRange.
monthRange(today, off) ==
    LET from == NewDateYMD(getFullYear(today, off), getMonth(today, off), 1, off)
        to   == NewDateYMD(getFullYear(today, off), getMonth(today, off) + 1, 0, off)
    IN  Range(formatDate(from, off), formatDate(to, off))

\* case 'PAST' of parseTimeRange.  The day of the month is computed from
\* today, and set on a Date made by a second new Date(), read at c2.
pastRange(tokens, today, c2, off) ==
    LET count == parseInt(At(tokens, 1))
    IN  IF count.nan \/ At(tokens, 2) # DAYS
        THEN Throw(Error("Invalid PAST format. Use 'PAST <number> DAYS'.", <<>>))
        ELSE LET from == setDate(DateAt(c2), off,
                                 getDate(today, off) - (count.n - 1))
             IN  Range(formatDate(from, off), formatDate(today, off))

\* case 'FROM' accepting four tokens and no more.
fromRange_FourTokens(tokens, off, len) ==
    IF Len(tokens) # 4 \/ At(tokens, 2) # TO
    THEN Throw(Error("Invalid FROM...TO format.", <<>>))
    ELSE LET from == DateParse(At(tokens, 1), len)
             to   == DateParse(At(tokens, 3), len)
         IN  IF from.nan \/ to.nan
             THEN Throw(Error("Invalid date format in FROM...TO. Use YYYY-MM-DD.", <<>>))
             ELSE Range(formatDate(from, off), formatDate(to, off))

\* case 'FROM' of parseTimeRange.
fromRange(tokens, off, len) ==
    IF Len(tokens) < 4 \/ At(tokens, 2) # TO
    THEN Throw(Error("Invalid FROM...TO format.", <<>>))
    ELSE LET from == DateParse(At(tokens, 1), len)
             to   == DateParse(At(tokens, 3), len)
         IN  IF from.nan \/ to.nan
             THEN Throw(Error("Invalid date format in FROM...TO. Use YYYY-MM-DD.", <<>>))
             ELSE Range(formatDate(from, off), formatDate(to, off))

\* The default case with a message that leaves the token out.
unknownRange_NoToken(tokens) == Throw(Error("Unknown time range specifier: ", <<>>))

\* default of parseTimeRange.
unknownRange(tokens) == Throw(Error("Unknown time range specifier: ", At(tokens, 0)))

\* parseTimeRange(tokens).  c1 is what new Date() returns on line 515,
\* c2 what the second new Date() returns on line 545.
parseTimeRange(tokens, c1, c2, off, len) ==
    LET today == DateAt(c1)
        kw    == At(tokens, 0)
    IN  IF kw = TODAY THEN todayRange(today, off)
        ELSE IF kw = WEEK THEN weekRange(today, off)
        ELSE IF kw = MONTH THEN monthRange(today, off)
        ELSE IF kw = PAST THEN pastRange(tokens, today, c2, off)
        ELSE IF kw = FROM THEN fromRange(tokens, off, len)
        ELSE unknownRange(tokens)

\* parseQuery without the check of the query type.
parseQuery_NoTypeCheck(src, c1, c2, off, len) ==
    LET split  == splitWs(trim(src))
        tokens == [i \in 1..Len(split) |-> toUpperCase(split[i])]
        type   == At(tokens, 0)
    IN  IF Len(tokens) < 2 THEN Throw(Error("Query is too short.", <<>>))
        ELSE LET r == parseTimeRange(SubSeq(tokens, 2, Len(tokens)), c1, c2, off, len)
             IN  IF r.ok THEN [r EXCEPT !.type = type] ELSE r

\* parseQuery reading its tokens as they are written, not in upper case.
parseQuery_CaseSensitive(src, c1, c2, off, len) ==
    LET tokens == splitWs(trim(src))
        type   == At(tokens, 0)
    IN  IF Len(tokens) < 2 THEN Throw(Error("Query is too short.", <<>>))
        ELSE IF type # LIST /\ type # SUMMARY
             THEN Throw(Error("Invalid query type: . Must be LIST or SUMMARY.", type))
        ELSE LET r == parseTimeRange(SubSeq(tokens, 2, Len(tokens)), c1, c2, off, len)
             IN  IF r.ok THEN [r EXCEPT !.type = type] ELSE r

\* parseQuery(source).
parseQuery(src, c1, c2, off, len) ==
    LET split  == splitWs(trim(src))
        tokens == [i \in 1..Len(split) |-> toUpperCase(split[i])]
        type   == At(tokens, 0)
    IN  IF Len(tokens) < 2 THEN Throw(Error("Query is too short.", <<>>))
        ELSE IF type # LIST /\ type # SUMMARY
             THEN Throw(Error("Invalid query type: . Must be LIST or SUMMARY.", type))
        ELSE LET r == parseTimeRange(SubSeq(tokens, 2, Len(tokens)), c1, c2, off, len)
             IN  IF r.ok THEN [r EXCEPT !.type = type] ELSE r

(***************************************************************************)
(* The HQL renderer.  A time entry is                                      *)
(*   [id, project |-> [id, name], task |-> [id, name], spent_date, hours] *)
(* with the hours counted in hundredths of an hour.  What renderReport    *)
(* builds in its container is a record: the message, or the table rows,   *)
(* or the total, the bars and the legend.                                  *)
(***************************************************************************)
\* Number.prototype.toFixed(2) of hours counted in hundredths.
toFixed2(h) == NumStr(h \div 100) \o <<".">> \o padStart2(NumStr(h % 100))

NoReport ==
    [kind |-> "none", message |-> "", rows |-> <<>>, total |-> <<>>,
     bars |-> <<>>, legend |-> <<>>]

\* renderList with the rows in the opposite order.
renderList_Reversed(es) ==
    [NoReport EXCEPT
        !.kind = "list",
        !.rows = [i \in 1..Len(es) |->
                     <<es[Len(es) + 1 - i].project.name, es[Len(es) + 1 - i].task.name,
                       es[Len(es) + 1 - i].spent_date,
                       toFixed2(es[Len(es) + 1 - i].hours)>>]]

\* renderList: one row per entry, in the order of the entries.
renderList(es) ==
    [NoReport EXCEPT
        !.kind = "list",
        !.rows = [i \in 1..Len(es) |->
                     <<es[i].project.name, es[i].task.name, es[i].spent_date,
                       toFixed2(es[i].hours)>>]]

\* The values a property of projectTotals is read as: a number (of
\* hundredths), a string, a function or object inherited from
\* Object.prototype, or undefined.
Num(n) == [type |-> "number", n |-> n]

Str == [type |-> "string", n |-> 0]

Inherited == [type |-> "object", n |-> 0]

NoValue == [type |-> "undefined", n |-> 0]

\* The names Object.prototype defines, which {} inherits.
Proto == <<"_","_","p","r","o","t","o","_","_">>

ObjectPrototype ==
    {<<"c","o","n","s","t","r","u","c","t","o","r">>,
     <<"_","_","d","e","f","i","n","e","G","e","t","t","e","r","_","_">>,
     <<"_","_","d","e","f","i","n","e","S","e","t","t","e","r","_","_">>,
     <<"h","a","s","O","w","n","P","r","o","p","e","r","t","y">>,
     <<"_","_","l","o","o","k","u","p","G","e","t","t","e","r","_","_">>,
     <<"_","_","l","o","o","k","u","p","S","e","t","t","e","r","_","_">>,
     <<"i","s","P","r","o","t","o","t","y","p","e","O","f">>,
     <<"p","r","o","p","e","r","t","y","I","s","E","n","u","m","e","r","a","b","l","e">>,
     <<"t","o","S","t","r","i","n","g">>,
     <<"v","a","l","u","e","O","f">>,
     <<"_","_","p","r","o","t","o","_","_">>,
     <<"t","o","L","o","c","a","l","e","S","t","r","i","n","g">>}

\* projectTotals is a sequence of its own properties [key, value] in the
\* order of their creation.
Own(obj, key) == \E i \in 1..Len(obj) : obj[i].key = key

\* projectTotals[key].
Get(obj, key) ==
    IF Own(obj, key) THEN obj[CHOOSE i \in 1..Len(obj) : obj[i].key = key].value
    ELSE IF key \in ObjectPrototype THEN Inherited
    ELSE NoValue

\* projectTotals[key] = value, for a primitive value: the setter of
\* __proto__ ignores it, another key becomes or stays an own property.
Put(obj, key, value) ==
    IF key = Proto THEN obj
    ELSE IF Own(obj, key)
         THEN [i \in 1..Len(obj) |->
                  IF obj[i].key = key THEN [key |-> key, value |-> value] ELSE obj[i]]
    ELSE Append(obj, [key |-> key, value |-> value])

\* !value.
Falsy(value) == value.type = "undefined" \/ (value.type = "number" /\ value.n = 0)

\* value + hours: a sum of numbers, and else a concatenation of strings.
Plus(value, hours) == IF value.type = "number" THEN Num(value.n + hours) ELSE Str

\* One turn of the loop of lines 600-607 on projectTotals.
Accumulate(obj, entry) ==
    LET projectName == entry.project.name
        initialised == IF Falsy(Get(obj, projectName))
                       THEN Put(obj, projectName, Num(0)) ELSE obj
    IN  Put(initialised, projectName, Plus(Get(initialised, projectName), entry.hours))

RECURSIVE projectTotals(_, _)
projectTotals(es, obj) ==
    IF Len(es) = 0 THEN obj ELSE projectTotals(Tail(es), Accumulate(obj, es[1]))

\* totalHours.
RECURSIVE SumHours(_)
SumHours(es) == IF Len(es) = 0 THEN 0 ELSE es[1].hours + SumHours(Tail(es))

\* The order of two integers written in canonical decimal digits.
NumLeq(a, b) ==
    \/ Len(a) < Len(b)
    \/ /\ Len(a) = Len(b)
       /\ \/ a = b
          \/ \E i \in 1..Len(a) :
                /\ DigitVal(a[i]) < DigitVal(b[i])
                /\ \A j \in 1..(i - 1) : a[j] = b[j]

\* A key that is an array index: a canonical decimal integer below 2^32 - 1.
IsArrayIndex(key) ==
    /\ Len(key) >= 1 /\ AllDigits(key)
    /\ (Len(key) = 1 \/ key[1] # "0")
    /\ NumLeq(key, <<"4","2","9","4","9","6","7","2","9","4">>)

\* Object.keys(projectTotals): the array indices in ascending order, then
\* the other keys in the order of their creation.
RECURSIVE Ascending(_)
Ascending(keys) ==
    IF keys = {} THEN <<>>
    ELSE LET least == CHOOSE k \in keys : \A other \in keys : NumLeq(k, other)
         IN  <<least>> \o Ascending(keys \ {least})

ObjectKeys(obj) ==
    LET created == [i \in 1..Len(obj) |-> obj[i].key]
    IN  Ascending({created[i] : i \in {k \in 1..Len(obj) : IsArrayIndex(created[k])}})
        \o SelectSeq(created, LAMBDA k : ~IsArrayIndex(k))

\* Array.prototype.sort((a, b) => projectTotals[b] - projectTotals[a]) on
\* numbers: a stable sort by total, descending.
RECURSIVE InsertSorted(_, _, _)
InsertSorted(sorted, name, obj) ==
    IF Len(sorted) = 0 THEN <<name>>
    ELSE IF Get(obj, sorted[1]).n >= Get(obj, name).n
         THEN <<sorted[1]>> \o InsertSorted(Tail(sorted), name, obj)
         ELSE <<name>> \o sorted

RECURSIVE SortProjects(_, _, _)
SortProjects(keys, sorted, obj) ==
    IF Len(keys) = 0 THEN sorted
    ELSE SortProjects(Tail(keys), InsertSorted(sorted, keys[1], obj), obj)

\* A palette of six colors, the last one left out.
colors_Six == <<"#84b65a", "#c25956", "#59a7c2", "#c29b59", "#8e59c2", "#c2598e">>

colors == <<"#84b65a", "#c25956", "#59a7c2", "#c29b59", "#8e59c2", "#c2598e", "#5ac28a">>

\* renderSummary: the total, then a bar and a legend item per project.  A
\* bar's width is the fraction num / den of 100%, or 0 when the total is 0.
\* A total that is a string has no toFixed: line 628 throws a TypeError at
\* its bar, whatever order the sort left the projects in, and what was
\* built until then is replaced or dropped by the caller.
renderSummary(es) ==
    LET totalHours     == SumHours(es)
        totals         == projectTotals(es, <<>>)
        sortedProjects == SortProjects(ObjectKeys(totals), <<>>, totals)
        color(i)       == colors[((i - 1) % Len(colors)) + 1]
    IN  IF \E i \in 1..Len(totals) : totals[i].value.type # "number"
        THEN [NoReport EXCEPT !.kind = "threw",
                              !.message = "projectHours.toFixed is not a function"]
        ELSE
        [NoReport EXCEPT
            !.kind  = "summary",
            !.total = toFixed2(totalHours),
            !.bars  = [i \in 1..Len(sortedProjects) |->
                          [name  |-> sortedProjects[i],
                           width |-> IF totalHours > 0
                                     THEN [num |-> Get(totals, sortedProjects[i]).n * 100,
                                           den |-> totalHours]
                                     ELSE [num |-> 0, den |-> 1],
                           color |-> color(i),
                           hours |-> toFixed2(Get(totals, sortedProjects[i]).n)]],
            !.legend = [i \in 1..Len(sortedProjects) |->
                          [name  |-> sortedProjects[i],
                           color |-> color(i),
                           hours |-> toFixed2(Get(totals, sortedProjects[i]).n)]]]

\* renderReport without the test for no entries.
renderReport_NoEmptyCase(es, q) ==
    IF q.type = LIST THEN renderList(es)
    ELSE IF q.type = SUMMARY THEN renderSummary(es)
    ELSE [NoReport EXCEPT !.kind = "empty"]

\* renderReport(container, entries, query).
renderReport(es, q) ==
    IF Len(es) = 0
    THEN [NoReport EXCEPT !.kind = "empty",
                          !.message = "No time entries found for the selected period."]
    ELSE IF q.type = LIST THEN renderList(es)
    ELSE IF q.type = SUMMARY THEN renderSummary(es)
    ELSE [NoReport EXCEPT !.kind = "empty"]

(***************************************************************************)
(* The HQL processor's values.                                             *)
(***************************************************************************)
StaticFlag == <<"-","-","s","t","a","t","i","c">>

\* String.prototype.indexOf: the first position of sub in s, 0 when s does
\* not hold it.
IndexOf(s, sub) ==
    LET hits == {i \in 1..(Len(s) - Len(sub) + 1) : SubSeq(s, i, i + Len(sub) - 1) = sub}
    IN  IF hits = {} THEN 0 ELSE CHOOSE i \in hits : \A j \in hits : i <= j

\* source.includes('--static').
includes(s, sub) == IndexOf(s, sub) > 0

\* source.replace('--static', ''): the first occurrence is removed.
replaceFirst(s, sub) ==
    LET i == IndexOf(s, sub)
    IN  IF i = 0 THEN s
        ELSE SubSeq(s, 1, i - 1) \o SubSeq(s, i + Len(sub), Len(s))

\* What an element displays: a text set with setText, with the error whose
\* message follows it, or the report rendered into it.
Display(text, error, report) == [text |-> text, error |-> error, report |-> report]

Nothing == Display("", NoError, NoReport)

\* setText displaying nothing.
setText_Nothing(text) == Display("", NoError, NoReport)

setText(text) == Display(text, NoError, NoReport)

\* The text of the catch without the message of the error.
ErrorText_NoMessage(e) == Display("Error processing Harvest query: ", NoError, NoReport)

\* el.setText(`Error processing Harvest query: ${e.message}`).
ErrorText(e) == Display("Error processing Harvest query: ", e, NoReport)

\* A line of the document: plain text, the <pre><code> line that holds the
\* source of a frozen block, or the line that holds its rendered report.
Line(text) == [text |-> text, source |-> <<>>, report |-> NoReport]

\* replacementText, line by line.
replacementText(src, report) ==
    <<Line("<div class=\"harvest-static-container\">"),
      Line("<details>"),
      Line("<summary>View static query</summary>"),
      [text |-> "<pre><code></code></pre>", source |-> src, report |-> NoReport],
      Line("</details>"),
      [text |-> "", source |-> <<>>, report |-> report],
      Line("</div>")>>

\* newLines with the lines after the section taken from lineEnd on.
newLines_FromLineEnd(lines, lineStart, lineEnd, replacement) ==
    SubSeq(lines, 1, lineStart) \o replacement \o SubSeq(lines, lineEnd + 1, Len(lines))

\* [...lines.slice(0, lineStart), replacementText, ...lines.slice(lineEnd + 1)]
\* with the 0-based line numbers of getSectionInfo.
newLines(lines, lineStart, lineEnd, replacement) ==
    SubSeq(lines, 1, lineStart) \o replacement \o SubSeq(lines, lineEnd + 2, Len(lines))

\* The executions of hqlProcessor, and the blocks of the document.
Blocks == {1, 2}

\* The calls an execution has made.
NoCalls == [getTimeEntries |-> 0, read |-> 0, modify |-> 0]

\* What getTimeEntries resolves to: an array, never null.
Entries(list) == [isNull |-> FALSE, list |-> list]

(***************************************************************************)
(* The inputs of the parser specification.                                 *)
(***************************************************************************)
\* The largest count written in a PAST query.
MaxCount == 34

\* The most hours the clock advances between the two new Date() calls of
\* one parseTimeRange call.
MaxClockStep == 1

\* The local UTC offsets of the process, in hours.
Offsets == {-5, 0, 9}

\* The days on which queries are evaluated: the turn of a leap February,
\* the turn of a year, and the ends of a 28-day and a 30-day month.
Days ==
    (DaysFromCivil(2024, 2, 26) .. DaysFromCivil(2024, 3, 3))
    \cup (DaysFromCivil(2024, 12, 28) .. DaysFromCivil(2025, 1, 3))
    \cup {DaysFromCivil(2025, 2, 28), DaysFromCivil(2025, 4, 30), DaysFromCivil(2025, 6, 15)}

\* The local hours at which queries are evaluated.
Hours == {0, 23}

toLowerCase(s) ==
    [i \in 1..Len(s) |->
        IF \E k \in 1..26 : UpperLetters[k] = s[i]
        THEN LowerLetters[CHOOSE k \in 1..26 : UpperLetters[k] = s[i]]
        ELSE s[i]]

\* YYYY-MM-DD written with two-digit month and day, whatever m and d are.
DateToken(y, m, d) ==
    NumStr(y) \o <<"-">> \o padStart2(NumStr(m)) \o <<"-">> \o padStart2(NumStr(d))

\* Calendar dates written in queries.
ValidDates ==
    {<<2024, 2, 28>>, <<2024, 2, 29>>, <<2024, 12, 31>>, <<2025, 1, 1>>,
     <<2025, 1, 31>>, <<2025, 3, 1>>}

\* Dates no calendar has.
NoDates == {<<2025, 2, 29>>, <<2025, 2, 30>>, <<2025, 13, 1>>, <<2025, 1, 32>>, <<2025, 1, 0>>}

DateTokens ==
    {DateToken(d[1], d[2], d[3]) : d \in ValidDates \cup NoDates}
    \cup {<<"2","0","2","5">>, <<"2","0","2","6">>, <<"2","0","2","5","-","0","2">>,
          <<"X">>, <<"2","0","2","5","0","1","0","1">>}

CountTokens ==
    {NumStr(n) : n \in 0..MaxCount}
    \cup {<<"-","3">>, <<"+","2">>, <<"7","X">>, <<"X">>, <<"X","7">>,
          <<"0","X","1","0">>, <<"-">>}

\* The tokens after the report type.
RangeWords ==
    {<<TODAY>>, <<WEEK>>, <<MONTH>>, <<toLowerCase(TODAY)>>, <<<<"W","e","e","k">>>>,
     <<>>, <<DAYS>>, <<<<"Y","E","S","T","E","R","D","A","Y">>>>, <<TO>>,
     <<<<"l","a","s","t">>, WEEK>>, <<TODAY, WEEK>>,
     <<PAST>>, <<PAST, <<"7">>>>, <<PAST, <<"7">>, <<"D","A","Y">>>>, <<PAST, DAYS>>,
     <<PAST, DAYS, <<"7">>>>,
     <<FROM>>, <<FROM, <<"2","0","2","5","-","0","1","-","0","1">>>>}
    \cup {<<PAST, c, DAYS>> : c \in CountTokens}
    \cup {<<toLowerCase(PAST), <<"3">>, toLowerCase(DAYS)>>}
    \cup {<<FROM, d[1], TO, d[2]>> : d \in DateTokens \X DateTokens}
    \cup {<<FROM, d, <<"U","N","T","I","L">>, d>> : d \in DateTokens}
    \cup {<<FROM, d, TO>> : d \in DateTokens}
    \cup {<<FROM, d, d>> : d \in DateTokens}

\* The first token.
TypeWords ==
    {LIST, SUMMARY, toLowerCase(LIST), <<"S","u","m","m","a","r","y">>,
     <<"L","I","S","T","S">>, <<"S","H","O","W">>, TODAY}

IsFromQuery(ws) == Len(ws) >= 2 /\ toUpperCase(ws[2]) = FROM

\* The words of a source text: nothing, one word, or a first token and the
\* tokens after it.  Every range is written after LIST, and a few ranges
\* after every first token.
FewRanges ==
    {<<TODAY>>, <<toLowerCase(TODAY)>>, <<WEEK>>, <<MONTH>>, <<PAST, <<"7">>, DAYS>>,
     <<toLowerCase(PAST), <<"3">>, toLowerCase(DAYS)>>, <<DAYS>>,
     <<FROM, DateToken(2024, 12, 31), TO, DateToken(2025, 1, 31)>>}

WordLists ==
    {<<>>} \cup {<<t>> : t \in TypeWords}
    \cup {<<LIST>> \o r : r \in RangeWords \ {<<>>}}
    \cup {<<p[1]>> \o p[2] : p \in TypeWords \X FewRanges}

\* How the words are laid out: what precedes the first, separates two, and
\* follows the last.
Plain == [lead |-> <<>>, sep |-> <<" ">>, trail |-> <<>>]

Spaced == [lead |-> <<" ", "\t">>, sep |-> <<" ", " ">>, trail |-> <<"\n">>]

\* The source texts: every word list laid out plainly, and the short ones
\* also with whitespace around and between the words.
Sources ==
    {[words |-> ws, layout |-> Plain] : ws \in WordLists}
    \cup {[words |-> ws, layout |-> Spaced] :
             ws \in {w \in WordLists : Len(w) <= 1 \/ (Len(w) >= 2 /\ <<w[2]>> \in FewRanges)
                                       \/ Tail(w) \in FewRanges}}

\* The day a FROM query is evaluated on: its result does not read the clock.
\* The other queries do not reach new Date(string), and are evaluated by
\* the strict engine only.
FromDay == DaysFromCivil(2025, 1, 1)

RECURSIVE Join(_, _)
Join(ws, sep) ==
    IF Len(ws) = 0 THEN <<>>
    ELSE IF Len(ws) = 1 THEN ws[1]
    ELSE ws[1] \o sep \o Join(Tail(ws), sep)

Compose(ws, lay) == lay.lead \o Join(ws, lay.sep) \o lay.trail

(***************************************************************************)
(* The running timer: the values of the status bar, of a call of           *)
(* updateRunningTimer and of a call of stopTimer.                          *)
(***************************************************************************)
MaxPolls == 2

PollIds == 1..MaxPolls

\* The ids of the user's time entries in the service.
TimerIds == {1, 2}

\* The status bar item's text, and the entry whose project, task and hours
\* the text is written from (0 for none).
Status(text, entry) == [text |-> text, entry |-> entry]

\* A call of updateRunningTimer: by is "toggle" when toggleTimer awaits it.
NoPoll == [state |-> "idle", outcome |-> "none", running |-> 0, by |-> "none"]

NoStop == [state |-> "idle", id |-> 0, outcome |-> "none"]

NoCommand == [did |-> "none", id |-> 0, service |-> 0]

\* A call of startTimer: the project and task chosen, the request it
\* awaits, the entries that request listed, the entry it restarts.
NoStart ==
    [state |-> "idle", project |-> 0, task |-> 0, kind |-> "none", id |-> 0,
     outcome |-> "none", list |-> {}]

NoToggle == [did |-> "none", id |-> 0, refreshed |-> 0]

\* The calls of fetchAllTrackableProjects that may be in progress at once.
MaxFetches == 1

FetchIds == 1..MaxFetches

\* The most total_pages the service reports.
MaxPages == 2

\* A project: a record of /projects (full), or the project of a time entry.
Project(id, name, full) == [id |-> id, name |-> name, full |-> full]

\* A call of fetchAllTrackableProjects: the variables of getManagedProjects,
\* the pages it requested, the responses it added and whether a request
\* failed; whether the call sent a request, or returned the cache; the
\* recent projects it combined.
NoFetch ==
    [state |-> "idle", forceRefresh |-> FALSE, cached |-> FALSE, sent |-> FALSE, page |-> 1,
     totalPages |-> 1, allProjects |-> <<>>, requested |-> <<>>, pages |-> <<>>,
     failed |-> FALSE, recent |-> <<>>]

TimerUnused ==
    /\ service = 0
    /\ runningTimer = 0
    /\ statusBar = Status("Harvest", 0)
    /\ polls = [p \in PollIds |-> NoPoll]
    /\ stop = NoStop
    /\ lastStop = NoCommand
    /\ todays = {}
    /\ starting = NoStart
    /\ lastStart = <<>>
    /\ lastToggle = NoToggle
    /\ commands = 0
    /\ identity = "idle"
    /\ fetching = [state |-> "idle", got |-> "none"]
    /\ projectCache = <<>>
    /\ fetches = [c \in FetchIds |-> NoFetch]

(***************************************************************************)
(* The parser's specification: a source text, a clock, an offset and an   *)
(* engine are drawn, and parseQuery is applied.                            *)
(***************************************************************************)
InitParse ==
    \E src \in Sources, d \in Days, h \in Hours, off \in Offsets, len \in BOOLEAN :
        /\ IsFromQuery(src.words) => d = FromDay
        /\ ~IsFromQuery(src.words) => len = FALSE
        /\ words = src.words
        /\ source = Compose(src.words, src.layout)
        /\ now = d * 24 + h - off
        /\ tz = off
        /\ lenient = len
        /\ clock2 = now
        /\ pc = "input"
        /\ result = Throw(NoError)
        /\ credentials = FALSE
        /\ userId = 0
        /\ notices = {}
        /\ doc = <<>>
        /\ blockSource = [b \in Blocks |-> <<>>]
        /\ bpc = [b \in Blocks |-> "Absent"]
        /\ el = [b \in Blocks |-> Nothing]
        /\ query = [b \in Blocks |-> Throw(NoError)]
        /\ response = [b \in Blocks |-> "none"]
        /\ entries = [b \in Blocks |-> Entries(<<>>)]
        /\ pendingDoc = [b \in Blocks |-> <<>>]
        /\ blockOf = [b \in Blocks |-> b]
        /\ calls = [b \in Blocks |-> NoCalls]
        /\ fileContent = [b \in Blocks |-> <<>>]
        /\ TimerUnused
        /\ rEntries = <<>>
        /\ rQuery = Throw(NoError)
        /\ container = NoReport

\* const query = parseQuery(querySource), with the clock advancing by dt
\* hours between the two new Date() calls.
ParseQuery ==
    /\ pc = "input"
    /\ \E dt \in 0..MaxClockStep :
        /\ clock2' = now + dt
        /\ result' = parseQuery(source, now, now + dt, tz, lenient)
    /\ pc' = "parsed"
    /\ UNCHANGED <<source, now, tz, lenient, words, pluginVars, blockVars, renderVars, timerVars>>

NextParse == ParseQuery

SpecParse == InitParse /\ [][NextParse]_vars

(***************************************************************************)
(* The renderer's specification: a sequence of time entries and a query   *)
(* are drawn, and renderReport is applied.                                 *)
(***************************************************************************)
\* The most entries handed to renderReport.
MaxEntries == 3

\* The names of projects and tasks.
ProjA == <<"P","r","o","j"," ","A">>

ProjB == <<"P","r","o","j"," ","B">>

Proj2025 == <<"2","0","2","5">>

Constructor == <<"c","o","n","s","t","r","u","c","t","o","r">>

TaskX == <<"T","a","s","k"," ","X">>

TaskY == <<"T","a","s","k"," ","Y">>

\* The project, task, date and hours (in hundredths) of the time entries:
\* two projects, one of them under two ids; hours of 0, of a few
\* hundredths, equal and unequal; and projects named like a year and like
\* properties of Object.prototype.
EntryPool ==
    {[project |-> [id |-> 10, name |-> ProjA], task |-> [id |-> 100, name |-> TaskX],
      spent_date |-> "2025-01-01", hours |-> 250],
     [project |-> [id |-> 10, name |-> ProjA], task |-> [id |-> 101, name |-> TaskY],
      spent_date |-> "2025-01-02", hours |-> 5],
     [project |-> [id |-> 12, name |-> ProjA], task |-> [id |-> 100, name |-> TaskX],
      spent_date |-> "2025-01-02", hours |-> 100],
     [project |-> [id |-> 11, name |-> ProjB], task |-> [id |-> 100, name |-> TaskX],
      spent_date |-> "2025-01-01", hours |-> 100],
     [project |-> [id |-> 11, name |-> ProjB], task |-> [id |-> 101, name |-> TaskY],
      spent_date |-> "2025-01-01", hours |-> 300],
     [project |-> [id |-> 10, name |-> ProjA], task |-> [id |-> 100, name |-> TaskX],
      spent_date |-> "2025-01-03", hours |-> 0],
     [project |-> [id |-> 11, name |-> ProjB], task |-> [id |-> 101, name |-> TaskY],
      spent_date |-> "2025-01-03", hours |-> 0],
     [project |-> [id |-> 14, name |-> Proj2025], task |-> [id |-> 100, name |-> TaskX],
      spent_date |-> "2025-01-01", hours |-> 100],
     [project |-> [id |-> 15, name |-> Proto], task |-> [id |-> 100, name |-> TaskX],
      spent_date |-> "2025-01-01", hours |-> 100],
     [project |-> [id |-> 16, name |-> Constructor], task |-> [id |-> 101, name |-> TaskY],
      spent_date |-> "2025-01-02", hours |-> 250]}

\* A time entry: the i-th of a response, with its own id.
TimeEntry(i, e) ==
    [id |-> i, project |-> e.project, task |-> e.task, spent_date |-> e.spent_date,
     hours |-> e.hours]

\* The most projects of a response: more than the palette has colors.
MaxProjects == 9

\* The hours of the i-th of n entries of n projects: rising, falling, all
\* equal, or rising and falling in turn.
HoursOf(pattern, i, n) ==
    IF pattern = "rising" THEN 10 * i
    ELSE IF pattern = "falling" THEN 10 * (n + 1 - i)
    ELSE IF pattern = "equal" THEN 100
    ELSE IF i % 2 = 0 THEN 10 * i ELSE 10 * (n + 1 - i)

\* A response of n entries of n projects, named P1, P2, ...
ManyProjects(n, pattern) ==
    [i \in 1..n |->
        [id |-> i, project |-> [id |-> 20 + i, name |-> <<"P">> \o NumStr(i)],
         task |-> [id |-> 100, name |-> TaskX], spent_date |-> "2025-01-01",
         hours |-> HoursOf(pattern, i, n)]]

\* The sequences of entries handed to renderReport: the short ones of the
\* entries of EntryPool, and the long ones of many projects.
RenderInputs ==
    UNION {{[i \in 1..n |-> TimeEntry(i, picked[i])] : picked \in [1..n -> EntryPool]} :
           n \in 0..MaxEntries}
    \cup {ManyProjects(n, pattern) :
             n \in (MaxEntries + 1)..MaxProjects,
             pattern \in {"rising", "falling", "equal", "mixed"}}

InitRender ==
    \E type \in {LIST, SUMMARY} :
        \E es \in RenderInputs :
            /\ rEntries = es
            /\ rQuery = [Range(DateToken(2025, 1, 1), DateToken(2025, 1, 3))
                             EXCEPT !.type = type]
            /\ container = NoReport
            /\ now = DaysFromCivil(2025, 1, 3) * 24 + 12
            /\ tz = 0
            /\ lenient = FALSE
            /\ source = <<>>
            /\ words = <<>>
            /\ clock2 = now
            /\ pc = "unused"
            /\ result = Throw(NoError)
            /\ credentials = FALSE
            /\ userId = 0
            /\ notices = {}
            /\ doc = <<>>
            /\ blockSource = [b \in Blocks |-> <<>>]
            /\ bpc = [b \in Blocks |-> "Absent"]
            /\ el = [b \in Blocks |-> Nothing]
            /\ query = [b \in Blocks |-> Throw(NoError)]
            /\ response = [b \in Blocks |-> "none"]
            /\ entries = [b \in Blocks |-> Entries(<<>>)]
            /\ pendingDoc = [b \in Blocks |-> <<>>]
            /\ blockOf = [b \in Blocks |-> b]
            /\ calls = [b \in Blocks |-> NoCalls]
            /\ fileContent = [b \in Blocks |-> <<>>]
            /\ TimerUnused

\* renderReport(container, entries, query).
RenderReport ==
    /\ container.kind = "none"
    /\ container' = renderReport(rEntries, rQuery)
    /\ UNCHANGED <<rEntries, rQuery, now, tz, lenient, parseVars, pluginVars, blockVars, timerVars>>

NextRender == RenderReport

SpecRender == InitRender /\ [][NextRender]_vars

(***************************************************************************)
(* The calendar, stated from its rules and not from the Date object: what *)
(* the parser's results are compared with.                                 *)
(***************************************************************************)
LeapYear(y) == (y % 4 = 0 /\ y % 100 # 0) \/ y % 400 = 0

MonthLength(y, m) ==
    IF m \in {1, 3, 5, 7, 8, 10, 12} THEN 31
    ELSE IF m \in {4, 6, 9, 11} THEN 30
    ELSE IF LeapYear(y) THEN 29 ELSE 28

\* The days since 1970-01-01 of the first day of year y and of month m of y.
RECURSIVE YearStart(_)
YearStart(y) == IF y <= 1970 THEN 0
                ELSE YearStart(y - 1) + (IF LeapYear(y - 1) THEN 366 ELSE 365)

RECURSIVE MonthStart(_, _)
MonthStart(y, m) == IF m = 1 THEN YearStart(y)
                    ELSE MonthStart(y, m - 1) + MonthLength(y, m - 1)

\* The years the days of the model lie in.
Years == 2023..2026

\* The calendar date of a day number, written YYYY-MM-DD.
CalendarDate(day) ==
    LET y == CHOOSE yy \in Years : YearStart(yy) <= day /\ day < YearStart(yy + 1)
        m == CHOOSE mm \in 1..12 :
                 /\ MonthStart(y, mm) <= day
                 /\ day < MonthStart(y, mm) + MonthLength(y, mm)
    IN  [y |-> y, m |-> m, d |-> day - MonthStart(y, m) + 1]

Written(c) == DateToken(c.y, c.m, c.d)

\* Monday: 1970-01-05 was one.
IsMonday(day) == (day - 4) % 7 = 0

IsSunday(day) == (day - 3) % 7 = 0

\* s has the form YYYY-MM-DD, and names a date the calendar has.
IsDateForm(s) ==
    /\ Len(s) = 10 /\ s[5] = "-" /\ s[8] = "-"
    /\ \A i \in {1, 2, 3, 4, 6, 7, 9, 10} : IsDigit(s[i])

IsCalendarDate(s) ==
    /\ IsDateForm(s)
    /\ DecVal(SubSeq(s, 6, 7)) \in 1..12
    /\ DecVal(SubSeq(s, 9, 10)) \in
           1..MonthLength(DecVal(SubSeq(s, 1, 4)), DecVal(SubSeq(s, 6, 7)))

\* The order of two dates written YYYY-MM-DD.
DateNum(s) ==
    DecVal(SubSeq(s, 1, 4)) * 10000 + DecVal(SubSeq(s, 6, 7)) * 100 + DecVal(SubSeq(s, 9, 10))

\* The words of the source as the grammar reads them: without case.
UpperWords == [i \in 1..Len(words) |-> toUpperCase(words[i])]

Parsed == pc = "parsed"

\* The source names a report type and at least one more word.
TypeOk == Len(words) >= 2 /\ UpperWords[1] \in {LIST, SUMMARY}

\* The source is <LIST|SUMMARY> kw ..., whatever follows.
RangeIs(kw) == TypeOk /\ UpperWords[2] = kw

\* The local day the query is evaluated on.
Today == (now + tz) \div 24

\* A positive integer written in decimal digits.
IsPositiveInteger(s) == Len(s) >= 1 /\ AllDigits(s) /\ DecVal(s) >= 1

(***************************************************************************)
(* Claims about the parser, checked under SpecParse.                       *)
(***************************************************************************)

\* C2: every query parseQuery returns has from <= to; an input that would
\* resolve to an inverted range fails parsing.
C2_FromNotAfterTo ==
    (Parsed /\ result.ok) => DateNum(result.from) <= DateNum(result.to)

\* C3: for valid calendar dates d1 <= d2 and every local UTC offset,
\* <LIST|SUMMARY> FROM d1 TO d2 returns from = d1 and to = d2 exactly.
C3_FromToUnchanged ==
    (/\ Parsed /\ RangeIs(FROM) /\ Len(words) = 5 /\ UpperWords[4] = TO
     /\ IsCalendarDate(words[3]) /\ IsCalendarDate(words[5])
     /\ DateNum(words[3]) <= DateNum(words[5]))
    => (result.ok /\ result.from = words[3] /\ result.to = words[5])

\* C4: a FROM range is accepted only when it is FROM <date1> TO <date2>
\* with TO as the third token and both dates valid YYYY-MM-DD calendar
\* dates; a token of another form, such as a bare year, is never accepted.
C4_FromNeedsCalendarDates ==
    (Parsed /\ RangeIs(FROM) /\ result.ok)
    => (/\ Len(words) >= 5 /\ UpperWords[4] = TO
        /\ IsCalendarDate(words[3]) /\ IsCalendarDate(words[5]))

\* C5: for every today and every n >= 1, PAST n DAYS returns to = today and
\* from = today - (n - 1) days, also across a month or year boundary.
C5_PastCountsBack ==
    (/\ Parsed /\ RangeIs(PAST) /\ Len(words) >= 4
     /\ IsPositiveInteger(words[3]) /\ UpperWords[4] = DAYS)
    => (/\ result.ok
        /\ result.to = Written(CalendarDate(Today))
        /\ result.from = Written(CalendarDate(Today - (DecVal(words[3]) - 1))))

\* C6: a PAST range is accepted only when the count token is a positive
\* integer and the next token is DAYS: a non-numeric count, a count of zero
\* or less, a count followed by other characters, or a missing DAYS fails.
C6_PastNeedsPositiveCount ==
    (Parsed /\ RangeIs(PAST) /\ result.ok)
    => (Len(words) >= 4 /\ IsPositiveInteger(words[3]) /\ UpperWords[4] = DAYS)

\* C7: WEEK returns from = the Monday of the week containing today (6 days
\* earlier when today is a Sunday) and to = from + 6 days, on every day of
\* the week and across month and year boundaries.
C7_WeekIsMondayToSunday ==
    (Parsed /\ RangeIs(WEEK))
    => \E monday \in (Today - 6)..Today :
           /\ IsMonday(monday)
           /\ result.ok
           /\ result.from = Written(CalendarDate(monday))
           /\ result.to = Written(CalendarDate(monday + 6))

\* C7's case: WEEK evaluated on a Sunday whose Monday lies in the month
\* before.
C7_Witness ==
    /\ Parsed /\ RangeIs(WEEK) /\ result.ok
    /\ IsSunday(Today)
    /\ CalendarDate(Today).m # CalendarDate(Today - 6).m
    /\ result.from = Written(CalendarDate(Today - 6))
    /\ result.to = Written(CalendarDate(Today))

\* C8: MONTH returns from = the 1st and to = the last calendar day (28, 29,
\* 30 or 31) of the month containing today, December included.
C8_MonthIsFirstToLast ==
    (Parsed /\ RangeIs(MONTH))
    => LET c == CalendarDate(Today)
       IN  /\ result.ok
           /\ result.from = DateToken(c.y, c.m, 1)
           /\ result.to = DateToken(c.y, c.m, MonthLength(c.y, c.m))

\* C8's case: MONTH evaluated in the February of a leap year, which ends on
\* the 29th.
C8_Witness ==
    /\ Parsed /\ RangeIs(MONTH) /\ result.ok
    /\ CalendarDate(Today).m = 2 /\ LeapYear(CalendarDate(Today).y)
    /\ result.to = DateToken(CalendarDate(Today).y, 2, 29)

\* C9: parseQuery fails with an error, and returns no query, on empty or
\* whitespace-only input, on fewer than 2 tokens, and on a first token that
\* is not LIST or SUMMARY whatever its case.
C9_ShortOrUntypedFails ==
    /\ (Parsed /\ Len(words) < 2)
       => (~result.ok /\ result.error = Error("Query is too short.", <<>>))
    /\ (Parsed /\ Len(words) >= 2 /\ UpperWords[1] \notin {LIST, SUMMARY})
       => (/\ ~result.ok
           /\ result.error
              = Error("Invalid query type: . Must be LIST or SUMMARY.", UpperWords[1]))

\* C9's case: a source of whitespace only has been parsed and failed.
C9_Witness ==
    /\ Parsed /\ words = <<>> /\ Len(source) > 0
    /\ ~result.ok

\* C10: when the first token after the report type is none of TODAY, WEEK,
\* MONTH, PAST, FROM, parsing fails with an error whose message carries
\* that token (as tokenized: in upper case).
C10_UnknownRangeNamesToken ==
    (Parsed /\ TypeOk /\ UpperWords[2] \notin {TODAY, WEEK, MONTH, PAST, FROM})
    => (/\ ~result.ok
        /\ result.error = Error("Unknown time range specifier: ", UpperWords[2]))

\* C10's case: an unknown range word written in lower case, followed by a
\* known one, has been rejected.
C10_Witness ==
    /\ Parsed /\ TypeOk /\ Len(words) = 3
    /\ words[2] = <<"l","a","s","t">> /\ UpperWords[3] = WEEK
    /\ ~result.ok /\ result.error.arg = <<"L","A","S","T">>

\* The letters of s written in the other case, and in alternating case.
IsUpper(c) == \E k \in 1..26 : UpperLetters[k] = c

SwapCase(s) ==
    [i \in 1..Len(s) |->
        IF IsUpper(s[i]) THEN toLowerCase(<<s[i]>>)[1] ELSE toUpperCase(<<s[i]>>)[1]]

AlternateCase(s) ==
    [i \in 1..Len(s) |->
        IF i % 2 = 1 THEN toUpperCase(<<s[i]>>)[1] ELSE toLowerCase(<<s[i]>>)[1]]

\* The re-casings of the source: all upper, all lower, every letter
\* swapped, and alternating, where they differ from the source.
Recasings == {toUpperCase(source), toLowerCase(source), SwapCase(source),
              AlternateCase(source)} \ {source}

\* Two results of parseQuery are both failures, or the same query.
SameQuery(r1, r2) ==
    /\ r1.ok = r2.ok
    /\ r1.ok => (r1.type = r2.type /\ r1.from = r2.from /\ r2.to = r1.to)

\* C11: parsing is case-insensitive: a source and every re-casing of its
\* letters, parsed at the same time, both fail or give the identical query
\* (type, from and to).
C11_CaseInsensitive ==
    Parsed => \A s \in Recasings :
                  SameQuery(result, parseQuery(s, now, clock2, tz, lenient))

\* C11's case: a source written with lower-case letters has been parsed into
\* a query, and so has its re-casing in the other case, which differs from
\* it.
C11_Witness ==
    /\ Parsed /\ result.ok
    /\ source # toUpperCase(source)
    /\ SwapCase(source) # source
    /\ parseQuery(SwapCase(source), now, clock2, tz, lenient).ok
    /\ result.type \in {LIST, SUMMARY}

\* Tokens written after a query: a word, the end of a FROM range, a count
\* of days, and two range keywords.
TrailingTokens ==
    {<<<<"x">>>>, <<toLowerCase(TO), DateToken(2025, 1, 31)>>, <<<<"7">>, DAYS>>,
     <<MONTH, FROM>>}

\* C34: tokens that follow a complete query are ignored: a source that
\* parses into a query, followed by further tokens and parsed at the same
\* time, parses without an error into the same query (type, from and to).
C34_TrailingTokensAreIgnored ==
    (Parsed /\ result.ok)
    => \A extra \in TrailingTokens :
           LET longer == parseQuery(source \o <<" ">> \o Join(extra, <<" ">>),
                                    now, clock2, tz, lenient)
           IN  /\ longer.ok
               /\ longer.type = result.type
               /\ longer.from = result.from
               /\ longer.to = result.to

\* C34's case: a FROM query of four tokens after its type has been parsed
\* into a query, and so has the source with two more tokens.
C34_Witness ==
    /\ Parsed /\ result.ok /\ IsFromQuery(words) /\ Len(words) = 5
    /\ Len(splitWs(trim(source \o <<" ">> \o Join(<<MONTH, FROM>>, <<" ">>)))) = 7
    /\ parseQuery(source \o <<" ">> \o Join(<<MONTH, FROM>>, <<" ">>),
                  now, clock2, tz, lenient).ok

(***************************************************************************)
(* The HQL processor: one execution of hqlProcessor per block of the      *)
(* document, each suspended at its awaits, with getTimeEntries and        *)
(* request inlined.                                                        *)
(***************************************************************************)
\* The source texts of the blocks: queries without the flag, with the flag
\* after, before and between their tokens, in upper case, and twice.
BlockSources ==
    {Compose(ws, Plain) :
        ws \in {<<LIST, TODAY>>, <<SUMMARY, TODAY>>, <<LIST>>,
                <<LIST, TODAY, StaticFlag>>, <<StaticFlag, SUMMARY, WEEK>>,
                <<LIST, <<"N","E","V","E","R">>, StaticFlag>>,
                <<LIST, StaticFlag, TODAY>>,
                <<toUpperCase(StaticFlag), LIST, TODAY>>,
                <<StaticFlag, StaticFlag, SUMMARY, TODAY>>}}

\* The time entries the service holds for a query's range.
EntryA1 ==
    [id |-> 1, project |-> [id |-> 10, name |-> ProjA],
     task |-> [id |-> 100, name |-> TaskX], spent_date |-> "2025-01-01", hours |-> 250]

EntryA2 ==
    [id |-> 2, project |-> [id |-> 10, name |-> ProjA],
     task |-> [id |-> 101, name |-> TaskY], spent_date |-> "2025-01-02", hours |-> 100]

EntryB ==
    [id |-> 3, project |-> [id |-> 11, name |-> ProjB],
     task |-> [id |-> 100, name |-> TaskX], spent_date |-> "2025-01-01", hours |-> 300]

EntryC ==
    [id |-> 4, project |-> [id |-> 16, name |-> Constructor],
     task |-> [id |-> 101, name |-> TaskY], spent_date |-> "2025-01-02", hours |-> 250]

EntryLists == {<<>>, <<EntryA1, EntryA2>>, <<EntryA1, EntryB>>, <<EntryA1, EntryC>>}

\* The document: a line, block 1 in its fences, a line, block 2 in its
\* fences, a line.
InitialDoc(sources) ==
    <<Line("# Notes"),
      Line("(fence) harvest"), [text |-> "", source |-> sources[1], report |-> NoReport], Line("(fence)"),
      Line("between the blocks"),
      Line("(fence) harvest"), [text |-> "", source |-> sources[2], report |-> NoReport], Line("(fence)"),
      Line("the end")>>

\* The sources of the blocks of the document: block 2 is a live query when
\* both executions are of block 1, the document having been viewed twice.
DocSources(of, sources) ==
    [k \in Blocks |-> IF of[2] = k THEN sources[2]
                      ELSE IF of[1] = k THEN sources[1]
                      ELSE Compose(<<LIST, TODAY>>, Plain)]

\* ctx.getSectionInfo(el) of an execution: the 0-based lines of the fences
\* of its block, as they were when el was rendered.
SectionInfo(b) ==
    IF blockOf[b] = 1 THEN [lineStart |-> 1, lineEnd |-> 3] ELSE [lineStart |-> 5, lineEnd |-> 7]

Init ==
    /\ now = DaysFromCivil(2025, 1, 1) * 24 + 12
    /\ tz = 0
    /\ lenient = FALSE
    /\ source = <<>>
    /\ words = <<>>
    /\ clock2 = now
    /\ pc = "unused"
    /\ result = Throw(NoError)
    /\ credentials \in BOOLEAN
    /\ userId \in {0, 7}
    /\ notices = {}
    /\ blockOf \in {[b \in Blocks |-> b], [b \in Blocks |-> 1]}
    /\ blockSource \in [Blocks -> BlockSources]
    /\ blockOf[2] = 1 => blockSource[2] = blockSource[1]
    /\ doc = InitialDoc(DocSources(blockOf, blockSource))
    /\ bpc = [b \in Blocks |-> "Received"]
    /\ el = [b \in Blocks |-> Nothing]
    /\ query = [b \in Blocks |-> Throw(NoError)]
    /\ response = [b \in Blocks |-> "none"]
    /\ entries = [b \in Blocks |-> Entries(<<>>)]
    /\ pendingDoc = [b \in Blocks |-> <<>>]
    /\ calls = [b \in Blocks |-> NoCalls]
    /\ fileContent = [b \in Blocks |-> <<>>]
    /\ TimerUnused
    /\ rEntries = <<>>
    /\ rQuery = Throw(NoError)
    /\ container = NoReport

hasStaticFlag(b) == includes(blockSource[b], StaticFlag)

\* The calls of the executions after execution b has made one more call of
\* getTimeEntries, of vault.read or of vault.modify.
Called(b, callee) == [calls EXCEPT ![b][callee] = @ + 1]

querySource(b) == trim(replaceFirst(blockSource[b], StaticFlag))

\* hqlProcessor up to its first await: the flag, parseQuery, the loading
\* text, and getTimeEntries up to the request (lines 654-664, 709-711,
\* 875-880, 833-849).  A parse error goes to the catch of line 718.
Run(b) ==
    /\ bpc[b] = "Received"
    /\ \E dt \in 0..MaxClockStep :
        LET q == parseQuery(querySource(b), now, now + dt, tz, lenient)
        IN  IF ~q.ok
            THEN /\ el' = [el EXCEPT ![b] = ErrorText(q.error)]
                 /\ bpc' = [bpc EXCEPT ![b] = "ParseFailed"]
                 /\ UNCHANGED <<query, response, entries, notices, calls>>
            ELSE /\ query' = [query EXCEPT ![b] = q]
                 /\ calls' = Called(b, "getTimeEntries")
                 /\ el' = [el EXCEPT ![b] =
                              IF hasStaticFlag(b)
                              THEN setText("Loading static Harvest report...")
                              ELSE setText("Loading Harvest report...")]
                 /\ IF userId = 0
                    THEN /\ notices' = notices \cup
                                {"Harvest User ID not found. Cannot fetch your time entries."}
                         /\ response' = [response EXCEPT ![b] = "nouser"]
                         /\ entries' = [entries EXCEPT ![b] = Entries(<<>>)]
                         /\ bpc' = [bpc EXCEPT ![b] = "Resolved"]
                    ELSE IF ~credentials
                    THEN /\ notices' = notices \cup {"Harvest API credentials are not set."}
                         /\ response' = [response EXCEPT ![b] = "null"]
                         /\ entries' = [entries EXCEPT ![b] = Entries(<<>>)]
                         /\ bpc' = [bpc EXCEPT ![b] = "Resolved"]
                    ELSE /\ response' = [response EXCEPT ![b] = "sent"]
                         /\ bpc' = [bpc EXCEPT ![b] = "Fetching"]
                         /\ UNCHANGED <<entries, notices>>
    /\ UNCHANGED <<timerVars, renderVars, now, tz, lenient, parseVars, credentials, userId, doc, blockSource,
                   pendingDoc, blockOf, fileContent>>

\* requestUrl settles: request returns the response's json, or null after
\* a status >= 400 or a rejection (lines 851-860), and getTimeEntries
\* resolves to data.time_entries or to [] (lines 881-884).
FetchReturn(b) ==
    /\ bpc[b] = "Fetching"
    /\ \E outcome \in {"json", "status", "rejected"}, list \in EntryLists :
        IF outcome = "json"
        THEN /\ response' = [response EXCEPT ![b] = "data"]
             /\ entries' = [entries EXCEPT ![b] = Entries(list)]
             /\ UNCHANGED notices
        ELSE /\ response' = [response EXCEPT ![b] = "null"]
             /\ entries' = [entries EXCEPT ![b] = Entries(<<>>)]
             /\ notices' = notices \cup
                    {IF outcome = "status" THEN "Harvest API error: "
                     ELSE "Failed to connect to Harvest API."}
    /\ bpc' = [bpc EXCEPT ![b] = "Resolved"]
    /\ UNCHANGED <<timerVars, renderVars, now, tz, lenient, parseVars, credentials, userId, doc, blockSource,
                   el, query, pendingDoc, blockOf, calls, fileContent>>

\* hqlProcessor after await plugin.getTimeEntries(query): lines 665-695 with
\* the flag, lines 713-717 without.  An error thrown by renderReport (line
\* 671 or 714) goes to the catch of line 718.  The file and the section are
\* found or not, as the host decides.
Continue(b) ==
    /\ bpc[b] = "Resolved"
    /\ IF entries[b].isNull
       THEN /\ el' = [el EXCEPT ![b] = setText("Failed to fetch Harvest report.")]
            /\ bpc' = [bpc EXCEPT ![b] = "FetchFailed"]
            /\ UNCHANGED calls
       ELSE IF renderReport(entries[b].list, query[b]).kind = "threw"
       THEN /\ el' = [el EXCEPT ![b] =
                        ErrorText(Error(renderReport(entries[b].list, query[b]).message,
                                        <<>>))]
            /\ bpc' = [bpc EXCEPT ![b] = "RenderFailed"]
            /\ UNCHANGED calls
       ELSE IF hasStaticFlag(b)
       THEN \E fileFound \in BOOLEAN, sectionFound \in BOOLEAN :
                IF ~fileFound
                THEN /\ el' = [el EXCEPT ![b] =
                                 setText("Error: Could not find file to write static report.")]
                     /\ bpc' = [bpc EXCEPT ![b] = "RewriteFailed"]
                     /\ UNCHANGED calls
                ELSE IF ~sectionFound
                THEN /\ el' = [el EXCEPT ![b] =
                                 setText("Error: Could not read file section to write static report.")]
                     /\ bpc' = [bpc EXCEPT ![b] = "RewriteFailed"]
                     /\ UNCHANGED calls
                ELSE /\ bpc' = [bpc EXCEPT ![b] = "Reading"]
                     /\ calls' = Called(b, "read")
                     /\ UNCHANGED el
       ELSE /\ el' = [el EXCEPT ![b] =
                         Display("", NoError, renderReport(entries[b].list, query[b]))]
            /\ bpc' = [bpc EXCEPT ![b] = "Done"]
            /\ UNCHANGED calls
    /\ UNCHANGED <<timerVars, renderVars, now, tz, lenient, parseVars, pluginVars, blockSource, query, response,
                   entries, pendingDoc, blockOf, fileContent>>

\* vault.read(file) settles: the lines are replaced and vault.modify is
\* called (lines 695-704), or the rejection goes to the catch of line 718.
ReadReturn(b) ==
    /\ bpc[b] = "Reading"
    /\ \E read \in BOOLEAN :
        IF read
        THEN /\ fileContent' = [fileContent EXCEPT ![b] = doc]
             /\ pendingDoc' = [pendingDoc EXCEPT ![b] =
                    newLines(doc, SectionInfo(b).lineStart, SectionInfo(b).lineEnd,
                             replacementText(blockSource[b],
                                             renderReport(entries[b].list, query[b])))]
             /\ calls' = Called(b, "modify")
             /\ bpc' = [bpc EXCEPT ![b] = "Modifying"]
             /\ UNCHANGED el
        ELSE /\ el' = [el EXCEPT ![b] = ErrorText(Error("vault.read rejected", <<>>))]
             /\ bpc' = [bpc EXCEPT ![b] = "RewriteFailed"]
             /\ UNCHANGED <<pendingDoc, fileContent, calls>>
    /\ UNCHANGED <<timerVars, renderVars, now, tz, lenient, parseVars, pluginVars, blockSource, query, response,
                   entries, blockOf>>

\* vault.modify replacing the block in the document as it is when the
\* write is done, not in the content that was read.
ModifyReturn_Atomic(b) ==
    /\ bpc[b] = "Modifying"
    /\ doc' = newLines(doc, SectionInfo(b).lineStart, SectionInfo(b).lineEnd,
                       replacementText(blockSource[b],
                                       renderReport(entries[b].list, query[b])))
    /\ bpc' = [bpc EXCEPT ![b] = "Done"]
    /\ UNCHANGED <<timerVars, renderVars, now, tz, lenient, parseVars, credentials, userId, notices,
                   blockSource, el, query, response, entries, pendingDoc, blockOf, calls,
                   fileContent>>

\* vault.modify called again after a rejection, once.
ModifyReturn_Retry(b) ==
    /\ bpc[b] = "Modifying"
    /\ \E written \in BOOLEAN :
        IF written
        THEN /\ doc' = pendingDoc[b]
             /\ bpc' = [bpc EXCEPT ![b] = "Done"]
             /\ UNCHANGED <<el, calls>>
        ELSE IF calls[b].modify < 2
        THEN /\ calls' = Called(b, "modify")
             /\ UNCHANGED <<doc, bpc, el>>
        ELSE /\ el' = [el EXCEPT ![b] = ErrorText(Error("vault.modify rejected", <<>>))]
             /\ bpc' = [bpc EXCEPT ![b] = "RewriteFailed"]
             /\ UNCHANGED <<doc, calls>>
    /\ UNCHANGED <<timerVars, renderVars, now, tz, lenient, parseVars, credentials, userId, notices, blockSource,
                   query, response, entries, pendingDoc, blockOf, fileContent>>

\* vault.modify(file, newLines.join('\n')) settles (lines 704-705), or its
\* rejection goes to the catch of line 718.
ModifyReturn(b) ==
    /\ bpc[b] = "Modifying"
    /\ \E written \in BOOLEAN :
        IF written
        THEN /\ doc' = pendingDoc[b]
             /\ bpc' = [bpc EXCEPT ![b] = "Done"]
             /\ UNCHANGED el
        ELSE /\ el' = [el EXCEPT ![b] = ErrorText(Error("vault.modify rejected", <<>>))]
             /\ bpc' = [bpc EXCEPT ![b] = "RewriteFailed"]
             /\ UNCHANGED doc
    /\ UNCHANGED <<timerVars, renderVars, now, tz, lenient, parseVars, credentials, userId, notices, blockSource,
                   query, response, entries, pendingDoc, blockOf, calls, fileContent>>

Next ==
    \E b \in Blocks :
        \/ Run(b)
        \/ FetchReturn(b)
        \/ Continue(b)
        \/ ReadReturn(b)
        \/ ModifyReturn(b)

Spec == Init /\ [][Next]_vars

(***************************************************************************)
(* The running timer's specification: the plugin after onload, the polls   *)
(* of updateRunningTimer, and the Stop timer command.                      *)
(***************************************************************************)
\* The most calls of the stop command, of startTimer and of toggleTimer
\* in one behaviour; the interval's calls of updateRunningTimer are not
\* counted.  A call of getTimeEntries counts as one.
MaxCommands == 1

\* The entries of today the service may hold at first, and the projects
\* and tasks that may be chosen: that of each entry, and one of neither.
TodayPool ==
    {[id |-> 1, project |-> 10, task |-> 100], [id |-> 2, project |-> 10, task |-> 101]}

Picks ==
    {[project |-> 10, task |-> 100], [project |-> 10, task |-> 101],
     [project |-> 11, task |-> 100]}

InitTimer ==
    /\ now = DaysFromCivil(2025, 1, 3) * 24 + 12
    /\ tz = 0
    /\ lenient = FALSE
    /\ source = <<>>
    /\ words = <<>>
    /\ clock2 = now
    /\ pc = "unused"
    /\ result = Throw(NoError)
    /\ credentials \in BOOLEAN
    /\ userId \in {0, 7}
    /\ notices = {}
    /\ doc = <<>>
    /\ blockSource = [b \in Blocks |-> <<>>]
    /\ bpc = [b \in Blocks |-> "Absent"]
    /\ el = [b \in Blocks |-> Nothing]
    /\ query = [b \in Blocks |-> Throw(NoError)]
    /\ response = [b \in Blocks |-> "none"]
    /\ entries = [b \in Blocks |-> Entries(<<>>)]
    /\ pendingDoc = [b \in Blocks |-> <<>>]
    /\ blockOf = [b \in Blocks |-> b]
    /\ calls = [b \in Blocks |-> NoCalls]
    /\ fileContent = [b \in Blocks |-> <<>>]
    /\ rEntries = <<>>
    /\ rQuery = Throw(NoError)
    /\ container = NoReport
    /\ service \in {0} \cup TimerIds
    /\ todays \in {{}, TodayPool}
    /\ runningTimer = 0
    /\ statusBar = Status("Harvest", 0)
    /\ polls = [p \in PollIds |-> NoPoll]
    /\ stop = NoStop
    /\ lastStop = NoCommand
    /\ starting = NoStart
    /\ lastStart = <<>>
    /\ lastToggle = NoToggle
    /\ commands = 0
    /\ identity = "idle"
    /\ fetching = [state |-> "idle", got |-> "none"]
    /\ projectCache = <<>>
    /\ fetches = [c \in FetchIds |-> NoFetch]

\* What no step of the timer's calls changes.
timerFrame ==
    <<now, tz, lenient, parseVars, credentials, userId, doc, blockVars, renderVars, fetching,
      projectCache, fetches>>

\* The Notice of request for a response that is not the json of a
\* success (lines 851-859); none for the json.
RequestNotice(outcome) ==
    IF outcome = "status" THEN {"Harvest API error: "}
    ELSE IF outcome = "rejected" THEN {"Failed to connect to Harvest API."}
    ELSE {}

\* updateRunningTimer up to its await without the return of line 985.
updateRunningTimer_Unidentified(p, ns) ==
    IF ~credentials
    THEN /\ notices' = ns \cup {"Harvest API credentials are not set."}
         /\ runningTimer' = 0
         /\ statusBar' = Status("Harvest: no timer running", 0)
         /\ UNCHANGED polls
    ELSE /\ notices' = ns
         /\ polls' = [polls EXCEPT ![p] = [NoPoll EXCEPT !.state = "sent"]]
         /\ UNCHANGED <<runningTimer, statusBar>>

\* updateRunningTimer up to its await (lines 984-986, 832-849), as call p,
\* with the Notices ns shown before it: nothing without a user id; without
\* credentials request returns null and the else branch of line 991 runs.
updateRunningTimer(p, ns) ==
    IF userId = 0
    THEN /\ notices' = ns
         /\ UNCHANGED <<runningTimer, statusBar, polls>>
    ELSE IF ~credentials
    THEN /\ notices' = ns \cup {"Harvest API credentials are not set."}
         /\ runningTimer' = 0
         /\ statusBar' = Status("Harvest: no timer running", 0)
         /\ UNCHANGED polls
    ELSE /\ notices' = ns
         /\ polls' = [polls EXCEPT ![p] = [NoPoll EXCEPT !.state = "sent"]]
         /\ UNCHANGED <<runningTimer, statusBar>>

\* updateRunningTimer called by the interval of line 809 or by onload at
\* line 811.
UpdateRunningTimer(p) ==
    /\ polls[p].state = "idle"
    /\ updateRunningTimer(p, notices)
    /\ UNCHANGED <<timerFrame, identity, commands, service, stop, lastStop, todays, starting,
                   lastStart, lastToggle>>

\* The service answers the request of line 986 with the running entries
\* as they are then, or with an error, or the request fails.
PollAnswered(p) ==
    /\ polls[p].state = "sent"
    /\ \E outcome \in {"json", "status", "rejected"} :
        polls' = [polls EXCEPT ![p] =
                     [@ EXCEPT !.state = "answered", !.outcome = outcome,
                               !.running = IF outcome = "json" THEN service ELSE 0]]
    /\ UNCHANGED <<timerFrame, identity, commands, notices, service, runningTimer, statusBar,
                   stop, lastStop,
                   todays, starting, lastStart, lastToggle>>

\* toggleTimer after await this.updateRunningTimer() (lines 1007-1013), the
\* refresh having returned the running entry refreshed (0 for none, or for
\* no request), with the Notices ns shown before: it reads runningTimer as
\* the refresh left it, and stops that entry or opens the project picker;
\* without credentials the request of stopTimer returns null, nothing sent.
toggleTimer(refreshed, ns) ==
    IF runningTimer' # 0
    THEN /\ stop.state = "idle"
         /\ notices' = ns \cup {"Stopping timer..."}
                          \cup (IF credentials THEN {}
                                ELSE {"Harvest API credentials are not set."})
         /\ stop' = IF credentials
                    THEN [NoStop EXCEPT !.state = "sent", !.id = runningTimer']
                    ELSE stop
         /\ lastToggle' = [did |-> IF credentials THEN "stop" ELSE "notSent",
                           id |-> runningTimer', refreshed |-> refreshed]
    ELSE /\ notices' = ns \cup {"No timer running. Starting a new one..."}
         /\ lastToggle' = [did |-> "picker", id |-> 0, refreshed |-> refreshed]
         /\ UNCHANGED stop

\* updateRunningTimer after its await, leaving runningTimer as it is when
\* the response holds no running entry.
PollReturn_KeepsTimer(p) ==
    /\ polls[p].state = "answered"
    /\ IF polls[p].running # 0
       THEN /\ runningTimer' = polls[p].running
            /\ statusBar' = Status("Harvest: project - task (hours h)", polls[p].running)
       ELSE /\ runningTimer' = runningTimer
            /\ statusBar' = Status("Harvest: no timer running", 0)
    /\ polls' = [polls EXCEPT ![p] = NoPoll]
    /\ IF polls[p].by = "toggle"
       THEN toggleTimer(polls[p].running, notices \cup RequestNotice(polls[p].outcome))
       ELSE /\ notices' = notices \cup RequestNotice(polls[p].outcome)
            /\ UNCHANGED <<stop, lastToggle>>
    /\ UNCHANGED <<timerFrame, identity, commands, service, lastStop, todays, starting, lastStart>>

\* updateRunningTimer after its await (lines 987-994), and toggleTimer
\* after it when toggleTimer awaited this call.
PollReturn(p) ==
    /\ polls[p].state = "answered"
    /\ IF polls[p].running # 0
       THEN /\ runningTimer' = polls[p].running
            /\ statusBar' = Status("Harvest: project - task (hours h)", polls[p].running)
       ELSE /\ runningTimer' = 0
            /\ statusBar' = Status("Harvest: no timer running", 0)
    /\ polls' = [polls EXCEPT ![p] = NoPoll]
    /\ IF polls[p].by = "toggle"
       THEN toggleTimer(polls[p].running, notices \cup RequestNotice(polls[p].outcome))
       ELSE /\ notices' = notices \cup RequestNotice(polls[p].outcome)
            /\ UNCHANGED <<stop, lastToggle>>
    /\ UNCHANGED <<timerFrame, identity, commands, service, lastStop, todays, starting, lastStart>>

\* toggleTimer, called by the command toggle-harvest-timer or a click on
\* the status bar, up to its await (lines 1005-1006, 984-986): without a
\* user id or without credentials updateRunningTimer returns with no
\* request made, and toggleTimer goes on at once.
ToggleTimer(p) ==
    /\ commands < MaxCommands
    /\ commands' = commands + 1
    /\ polls[p].state = "idle"
    /\ IF userId = 0
       THEN /\ UNCHANGED <<runningTimer, statusBar, polls>>
            /\ toggleTimer(0, notices)
       ELSE IF ~credentials
       THEN /\ runningTimer' = 0
            /\ statusBar' = Status("Harvest: no timer running", 0)
            /\ UNCHANGED polls
            /\ toggleTimer(0, notices \cup {"Harvest API credentials are not set."})
       ELSE /\ polls' = [polls EXCEPT ![p] = [NoPoll EXCEPT !.state = "sent", !.by = "toggle"]]
            /\ UNCHANGED <<runningTimer, statusBar, notices, stop, lastToggle>>
    /\ UNCHANGED <<timerFrame, identity, service, lastStop, todays, starting, lastStart>>

\* The callback of the command stop-harvest-timer (lines 777-783) and
\* stopTimer up to its await (line 998, 832-849).
StopCommand ==
    /\ commands < MaxCommands
    /\ commands' = commands + 1
    /\ stop.state = "idle"
    /\ IF runningTimer = 0
       THEN /\ notices' = notices \cup {"No timer is currently running."}
            /\ lastStop' = [did |-> "noTimer", id |-> 0, service |-> service]
            /\ UNCHANGED stop
       ELSE IF ~credentials
       THEN /\ notices' = notices \cup {"Harvest API credentials are not set."}
            /\ lastStop' = [did |-> "notSent", id |-> runningTimer, service |-> service]
            /\ UNCHANGED stop
       ELSE /\ stop' = [NoStop EXCEPT !.state = "sent", !.id = runningTimer]
            /\ lastStop' = [did |-> "sent", id |-> runningTimer, service |-> service]
            /\ UNCHANGED notices
    /\ UNCHANGED <<timerFrame, identity, service, runningTimer, statusBar, polls, todays, starting,
                   lastStart, lastToggle>>

\* The service answers the request of line 998: it stops the entry when
\* that entry is running; for an entry that is not running the answer is
\* the service's to choose; or the request fails.
StopAnswered ==
    /\ stop.state = "sent"
    /\ \E outcome \in {"json", "status", "rejected"} :
        /\ stop' = [stop EXCEPT !.state = "answered", !.outcome = outcome]
        /\ service' = IF outcome = "json" /\ service = stop.id THEN 0 ELSE service
    /\ UNCHANGED <<timerFrame, identity, commands, notices, runningTimer, statusBar, polls,
                   lastStop, todays,
                   starting, lastStart, lastToggle>>

\* stopTimer after its await (lines 999-1002): the Notice and the call of
\* updateRunningTimer, which is not awaited.
StopReturn ==
    /\ stop.state = "answered"
    /\ stop' = NoStop
    /\ IF stop.outcome = "json"
       THEN \E p \in PollIds :
               /\ polls[p].state = "idle"
               /\ updateRunningTimer(p, notices \cup {"Timer stopped."})
       ELSE /\ notices' = notices \cup RequestNotice(stop.outcome)
            /\ UNCHANGED <<runningTimer, statusBar, polls>>
    /\ UNCHANGED <<timerFrame, identity, commands, service, lastStop, todays, starting,
                   lastStart, lastToggle>>

\* A timer-changing request as startTimer sends it, with the entries of
\* today in the service that have the chosen project and task.
Changing(kind, id, pick) ==
    [kind |-> kind, id |-> id,
     matching |-> {e.id : e \in {t \in todays : t.project = pick.project
                                                /\ t.task = pick.task}}]

\* startTimer(projectId, taskId, activeFile) up to its first request (lines
\* 938-955, 972-977): saveSettings with a file, whose rejection ends the
\* call; the request of today's entries with a user id; without one the
\* POST at once.  Without credentials request returns null each time.
StartTimer ==
    /\ commands < MaxCommands
    /\ commands' = commands + 1
    /\ starting.state = "idle"
    /\ \E pick \in Picks, activeFile \in {"none", "saved", "rejected"} :
        IF activeFile = "rejected"
        THEN /\ lastStart' = <<>>
             /\ UNCHANGED <<starting, notices>>
        ELSE IF ~credentials
        THEN /\ lastStart' = <<>>
             /\ notices' = notices \cup {"Harvest API credentials are not set."}
             /\ UNCHANGED starting
        ELSE IF userId # 0
        THEN /\ starting' = [NoStart EXCEPT !.state = "listing", !.project = pick.project,
                                        !.task = pick.task]
             /\ lastStart' = <<>>
             /\ UNCHANGED notices
        ELSE /\ starting' = [NoStart EXCEPT !.state = "changing", !.kind = "create",
                                        !.project = pick.project, !.task = pick.task]
             /\ lastStart' = <<Changing("create", 0, pick)>>
             /\ UNCHANGED notices
    /\ UNCHANGED <<timerFrame, identity, service, runningTimer, statusBar, polls, stop,
                   lastStop, todays,
                   lastToggle>>

\* The service answers the request of line 955 with today's entries as
\* they are then, or with an error, or the request fails.
StartListAnswered ==
    /\ starting.state = "listing"
    /\ \E outcome \in {"json", "status", "rejected"} :
        starting' = [starting EXCEPT !.state = "listed", !.outcome = outcome,
                               !.list = IF outcome = "json" THEN todays ELSE {}]
    /\ UNCHANGED <<timerFrame, identity, commands, notices, service, runningTimer, statusBar,
                   polls, stop,
                   lastStop, todays, lastStart, lastToggle>>

\* startTimer after the await of line 955 (lines 956-962, 972-977): the
\* restart of an entry of the chosen project and task, the first of the
\* response, or the POST of a new entry.
StartListReturn ==
    /\ starting.state = "listed"
    /\ notices' = notices \cup RequestNotice(starting.outcome)
                          \cup (IF credentials THEN {}
                                ELSE {"Harvest API credentials are not set."})
    /\ LET found  == {e \in starting.list : e.project = starting.project
                                             /\ e.task = starting.task}
           picked == [project |-> starting.project, task |-> starting.task]
       IN  IF ~credentials
           THEN /\ starting' = NoStart
                /\ UNCHANGED lastStart
           ELSE IF starting.outcome = "json" /\ found # {}
           THEN \E existingEntry \in found :
                   /\ starting' = [starting EXCEPT !.state = "changing", !.kind = "restart",
                                                   !.id = existingEntry.id, !.outcome = "none"]
                   /\ lastStart' = Append(lastStart,
                                          Changing("restart", existingEntry.id, picked))
           ELSE /\ starting' = [starting EXCEPT !.state = "changing", !.kind = "create",
                                                !.outcome = "none"]
                /\ lastStart' = Append(lastStart, Changing("create", 0, picked))
    /\ UNCHANGED <<timerFrame, identity, commands, service, runningTimer, statusBar, polls,
                   stop, lastStop, todays, lastToggle>>

\* The id the service gives to a new entry.
NewId == 1 + Cardinality(TodayPool) + Cardinality({e \in todays : e.id > Cardinality(TodayPool)})

\* The service answers the request of line 961 or of line 977: the entry
\* restarted, or the new entry, is the running one; or the request fails.
StartAnswered ==
    /\ starting.state = "changing"
    /\ \E outcome \in {"json", "status", "rejected"} :
        /\ starting' = [starting EXCEPT !.state = "changed", !.outcome = outcome]
        /\ IF outcome # "json"
           THEN UNCHANGED <<service, todays>>
           ELSE IF starting.kind = "restart"
           THEN /\ service' = starting.id
                /\ UNCHANGED todays
           ELSE /\ service' = NewId
                /\ todays' = todays \cup {[id |-> NewId, project |-> starting.project,
                                           task |-> starting.task]}
    /\ UNCHANGED <<timerFrame, identity, commands, notices, runningTimer, statusBar, polls,
                   stop, lastStop,
                   lastStart, lastToggle>>

\* startTimer after the await of line 961 (lines 962-966) or of line 977
\* (lines 978-981): the Notice and the call of updateRunningTimer, which
\* is not awaited; after a restart it returns, whatever the result.
StartReturn ==
    /\ starting.state = "changed"
    /\ starting' = NoStart
    /\ IF starting.outcome = "json"
       THEN \E p \in PollIds :
               /\ polls[p].state = "idle"
               /\ updateRunningTimer(p, notices \cup {IF starting.kind = "restart"
                                                      THEN "Timer restarted!"
                                                      ELSE "Timer started!"})
       ELSE /\ notices' = notices \cup RequestNotice(starting.outcome)
            /\ UNCHANGED <<runningTimer, statusBar, polls>>
    /\ UNCHANGED <<timerFrame, identity, commands, service, stop, lastStop, todays, lastStart,
                   lastToggle>>

\* The onChange of the setting Personal access token or Account ID (lines
\* 1139-1145, 1151-1157) up to the await in fetchCurrentUserId: the field
\* is set and saved; with the other field set fetchCurrentUserId is called,
\* whose request returns null when this field is now empty (lines 833-836,
\* 867-870).  set is whether this field is set after the change, other
\* whether the other field is.
SettingChanged ==
    /\ identity = "idle"
    /\ \E set \in BOOLEAN, other \in (IF credentials THEN {TRUE} ELSE BOOLEAN) :
        /\ credentials' = (set /\ other)
        /\ IF ~other
           THEN UNCHANGED <<userId, notices, identity>>
           ELSE IF ~set
           THEN /\ userId' = 0
                /\ notices' = notices \cup {"Harvest API credentials are not set.",
                                             "Could not retrieve Harvest User ID."}
                /\ UNCHANGED identity
           ELSE /\ identity' = "sent"
                /\ UNCHANGED <<userId, notices>>
    /\ UNCHANGED <<now, tz, lenient, parseVars, doc, blockVars, renderVars, service,
                   runningTimer, statusBar, polls, stop, lastStop, todays, starting, lastStart,
                   lastToggle, commands, fetching, projectCache, fetches>>

\* fetchCurrentUserId after its await (lines 864-871): the id of the
\* response, or null with a Notice.
FetchCurrentUserIdReturn ==
    /\ identity = "sent"
    /\ identity' = "idle"
    /\ \E outcome \in {"json", "status", "rejected"} :
        IF outcome = "json"
        THEN /\ userId' = 7
             /\ UNCHANGED notices
        ELSE /\ userId' = 0
             /\ notices' = notices \cup RequestNotice(outcome)
                                   \cup {"Could not retrieve Harvest User ID."}
    /\ UNCHANGED <<now, tz, lenient, parseVars, credentials, doc, blockVars, renderVars,
                   service, runningTimer, statusBar, polls, stop, lastStop, todays, starting,
                   lastStart, lastToggle, commands, fetching, projectCache, fetches>>

\* getTimeEntries(query) up to its await (lines 874-880, 832-836), called
\* for a harvest block: an empty list at once without a user id, and
\* without credentials, when request returns null.
GetTimeEntries ==
    /\ commands < MaxCommands
    /\ commands' = commands + 1
    /\ fetching.state = "idle"
    /\ IF userId = 0
       THEN /\ notices' = notices
                   \cup {"Harvest User ID not found. Cannot fetch your time entries."}
            /\ fetching' = [state |-> "idle", got |-> "empty"]
       ELSE IF ~credentials
       THEN /\ notices' = notices \cup {"Harvest API credentials are not set."}
            /\ fetching' = [state |-> "idle", got |-> "empty"]
       ELSE /\ fetching' = [state |-> "sent", got |-> "none"]
            /\ UNCHANGED notices
    /\ UNCHANGED <<now, tz, lenient, parseVars, credentials, userId, doc, blockVars,
                   renderVars, service, runningTimer, statusBar, polls, stop, lastStop, todays,
                   starting, lastStart, lastToggle, identity, projectCache, fetches>>

\* getTimeEntries after its await (lines 880-884): the time_entries of the
\* response, or an empty list.
GetTimeEntriesReturn ==
    /\ fetching.state = "sent"
    /\ \E outcome \in {"json", "status", "rejected"} :
        /\ fetching' = [state |-> "idle",
                        got |-> IF outcome = "json" THEN "time_entries" ELSE "empty"]
        /\ notices' = notices \cup RequestNotice(outcome)
    /\ UNCHANGED <<now, tz, lenient, parseVars, credentials, userId, doc, blockVars,
                   renderVars, service, runningTimer, statusBar, polls, stop, lastStop, todays,
                   starting, lastStart, lastToggle, identity, commands, projectCache,
                   fetches>>

NextTimer ==
    \/ \E p \in PollIds :
        \/ UpdateRunningTimer(p)
        \/ PollAnswered(p)
        \/ PollReturn(p)
        \/ ToggleTimer(p)
    \/ StopCommand
    \/ StopAnswered
    \/ StopReturn
    \/ StartTimer
    \/ StartListAnswered
    \/ StartListReturn
    \/ StartAnswered
    \/ StartReturn
    \/ SettingChanged
    \/ FetchCurrentUserIdReturn
    \/ GetTimeEntries
    \/ GetTimeEntriesReturn

SpecTimer == InitTimer /\ [][NextTimer]_vars

(***************************************************************************)
(* The project list: fetchAllTrackableProjects, getManagedProjects and     *)
(* getRecentProjectsFromTimeEntries, called by onload, by the refresh      *)
(* command and by the start command.                                       *)
(***************************************************************************)

\* The pages of /projects and the time entries' projects the service may
\* answer with: two records of id 1 among the managed, and recent records
\* of ids the managed hold and of an id they do not.
ManagedPages ==
    { <<>>,
      <<Project(1, "b", TRUE), Project(2, "a", TRUE)>>,
      <<Project(1, "c", TRUE)>> }

RecentEntries ==
    { <<>>,
      <<Project(1, "a", FALSE), Project(3, "a", FALSE), Project(1, "c", FALSE)>>,
      <<Project(3, "b", FALSE), Project(2, "c", FALSE)>> }

InitProjects ==
    /\ now = DaysFromCivil(2025, 1, 3) * 24 + 12
    /\ tz = 0
    /\ lenient = FALSE
    /\ source = <<>>
    /\ words = <<>>
    /\ clock2 = now
    /\ pc = "unused"
    /\ result = Throw(NoError)
    /\ credentials \in BOOLEAN
    /\ userId \in {0, 7}
    /\ notices = {}
    /\ doc = <<>>
    /\ blockSource = [b \in Blocks |-> <<>>]
    /\ bpc = [b \in Blocks |-> "Absent"]
    /\ el = [b \in Blocks |-> Nothing]
    /\ query = [b \in Blocks |-> Throw(NoError)]
    /\ response = [b \in Blocks |-> "none"]
    /\ entries = [b \in Blocks |-> Entries(<<>>)]
    /\ pendingDoc = [b \in Blocks |-> <<>>]
    /\ blockOf = [b \in Blocks |-> b]
    /\ calls = [b \in Blocks |-> NoCalls]
    /\ fileContent = [b \in Blocks |-> <<>>]
    /\ rEntries = <<>>
    /\ rQuery = Throw(NoError)
    /\ container = NoReport
    /\ TimerUnused

\* What no step of the project list changes.
projectFrame ==
    <<now, tz, lenient, parseVars, credentials, userId, doc, blockVars, renderVars, service,
      runningTimer, statusBar, polls, stop, lastStop, todays, starting, lastStart, lastToggle,
      commands, identity, fetching>>

\* a.name.localeCompare(b.name) on names of one lower-case letter.
localeCompare(a, b) ==
    LET rank(n) == CHOOSE i \in 1..3 : <<"a", "b", "c">>[i] = n
    IN  IF rank(a) < rank(b) THEN -1 ELSE IF rank(a) > rank(b) THEN 1 ELSE 0

\* A Map<number, HarvestProjectFull> as the sequence of its values in
\* insertion order: has and set (a set of a key the map holds replaces the
\* value and keeps its place).
MapHas(map, id) == \E i \in 1..Len(map) : map[i].id = id

MapSet(map, proj) ==
    IF MapHas(map, proj.id)
    THEN [i \in 1..Len(map) |-> IF map[i].id = proj.id THEN proj ELSE map[i]]
    ELSE Append(map, proj)

\* projects.forEach(proj => map.set(proj.id, proj)) (line 895).
RECURSIVE SetEach(_, _)
SetEach(map, projects) ==
    IF Len(projects) = 0 THEN map
    ELSE SetEach(MapSet(map, projects[1]), Tail(projects))

\* projects.forEach(proj => { if (!map.has(proj.id)) map.set(proj.id, proj) })
\* (lines 896-900, 928-933).
RECURSIVE SetEachAbsent(_, _)
SetEachAbsent(map, projects) ==
    IF Len(projects) = 0 THEN map
    ELSE SetEachAbsent(IF MapHas(map, projects[1].id) THEN map
                       ELSE MapSet(map, projects[1]),
                       Tail(projects))

\* Array.prototype.sort((a, b) => a.name.localeCompare(b.name)): a stable
\* sort by name.
RECURSIVE InsertByName(_, _)
InsertByName(sorted, proj) ==
    IF Len(sorted) = 0 THEN <<proj>>
    ELSE IF localeCompare(sorted[1].name, proj.name) <= 0
         THEN <<sorted[1]>> \o InsertByName(Tail(sorted), proj)
         ELSE <<proj>> \o sorted

RECURSIVE SortByName(_, _)
SortByName(values, sorted) ==
    IF Len(values) = 0 THEN sorted
    ELSE SortByName(Tail(values), InsertByName(sorted, values[1]))

\* The combination of lines 894-901 with the recent projects set first.
sortedProjects_RecentFirst(managedProjects, recentProjects) ==
    SortByName(SetEachAbsent(SetEach(<<>>, recentProjects), managedProjects), <<>>)

\* sortedProjects of lines 894-901: the managed projects, then the recent
\* ones of other ids, sorted by name.
sortedProjects(managedProjects, recentProjects) ==
    SortByName(SetEachAbsent(SetEach(<<>>, managedProjects), recentProjects), <<>>)

\* fetchAllTrackableProjects from line 901 for call c, whose record is f,
\* with the Notices ns shown before: the cache is replaced.
finish(c, f, recentProjects, ns) ==
    /\ projectCache' = sortedProjects(f.allProjects, recentProjects)
    /\ fetches' = [fetches EXCEPT ![c] = [f EXCEPT !.state = "returned",
                                                   !.recent = recentProjects]]
    /\ notices' = ns

\* getRecentProjectsFromTimeEntries up to its await (lines 922-926,
\* 832-836) after getManagedProjects has returned: an empty list at once
\* without a user id, and without credentials.
afterManaged(c, f, ns) ==
    IF userId = 0
    THEN finish(c, f, <<>>, ns)
    ELSE IF ~credentials
    THEN finish(c, f, <<>>, ns \cup {"Harvest API credentials are not set."})
    ELSE /\ fetches' = [fetches EXCEPT ![c] = [f EXCEPT !.state = "recent", !.sent = TRUE]]
         /\ notices' = ns
         /\ UNCHANGED projectCache

\* The request of line 911 for page f.page; without credentials it returns
\* null and the loop breaks.
requestPage(c, f, ns) ==
    LET g == [f EXCEPT !.requested = Append(@, f.page)]
    IN  IF ~credentials
        THEN afterManaged(c, [g EXCEPT !.failed = TRUE],
                          ns \cup {"Harvest API credentials are not set."})
        ELSE /\ fetches' = [fetches EXCEPT ![c] = [g EXCEPT !.state = "managed",
                                                           !.sent = TRUE]]
             /\ notices' = ns
             /\ UNCHANGED projectCache

\* fetchAllTrackableProjects(forceRefresh) up to its first await (lines
\* 887-892, 906-911).
FetchAllTrackableProjects(c) ==
    /\ fetches[c].state \in {"idle", "returned"}
    /\ \E forceRefresh \in BOOLEAN :
        IF Len(projectCache) > 0 /\ ~forceRefresh
        THEN /\ fetches' = [fetches EXCEPT ![c] = [NoFetch EXCEPT !.state = "returned",
                                                                 !.cached = TRUE]]
             /\ UNCHANGED <<projectCache, notices>>
        ELSE requestPage(c, [NoFetch EXCEPT !.forceRefresh = forceRefresh], notices)
    /\ UNCHANGED projectFrame

\* getManagedProjects after the await of line 911 with the loop condition
\* page < totalPages.
ManagedPageReturn_StopsEarly(c) ==
    /\ fetches[c].state = "managed"
    /\ \E outcome \in {"json", "status", "rejected"}, projects \in ManagedPages,
          total_pages \in 0..MaxPages :
        IF outcome = "json"
        THEN LET f == [fetches[c] EXCEPT
                          !.allProjects = @ \o projects,
                          !.totalPages = total_pages,
                          !.page = @ + 1,
                          !.pages = Append(@, [projects |-> projects,
                                               total_pages |-> total_pages])]
             IN  IF f.page < f.totalPages
                 THEN requestPage(c, f, notices)
                 ELSE afterManaged(c, f, notices)
        ELSE afterManaged(c, [fetches[c] EXCEPT !.failed = TRUE],
                          notices \cup RequestNotice(outcome))
    /\ UNCHANGED projectFrame

\* getManagedProjects after the await of line 911 (lines 912-918): the
\* page is added and the next one requested, or the list is returned and
\* getRecentProjectsFromTimeEntries called.
ManagedPageReturn(c) ==
    /\ fetches[c].state = "managed"
    /\ \E outcome \in {"json", "status", "rejected"}, projects \in ManagedPages,
          total_pages \in 0..MaxPages :
        IF outcome = "json"
        THEN LET f == [fetches[c] EXCEPT
                          !.allProjects = @ \o projects,
                          !.totalPages = total_pages,
                          !.page = @ + 1,
                          !.pages = Append(@, [projects |-> projects,
                                               total_pages |-> total_pages])]
             IN  IF f.page <= f.totalPages
                 THEN requestPage(c, f, notices)
                 ELSE afterManaged(c, f, notices)
        ELSE afterManaged(c, [fetches[c] EXCEPT !.failed = TRUE],
                          notices \cup RequestNotice(outcome))
    /\ UNCHANGED projectFrame

\* getRecentProjectsFromTimeEntries after the await of line 926 (lines
\* 927-935) and the rest of fetchAllTrackableProjects.
RecentReturn(c) ==
    /\ fetches[c].state = "recent"
    /\ \E outcome \in {"json", "status", "rejected"}, time_entries \in RecentEntries :
        IF outcome = "json"
        THEN finish(c, fetches[c], SetEachAbsent(<<>>, time_entries), notices)
        ELSE finish(c, fetches[c], <<>>, notices \cup RequestNotice(outcome))
    /\ UNCHANGED projectFrame

NextProjects ==
    \E c \in FetchIds :
        \/ FetchAllTrackableProjects(c)
        \/ ManagedPageReturn(c)
        \/ RecentReturn(c)

SpecProjects == InitProjects /\ [][NextProjects]_vars

(***************************************************************************)
(* Claims about the processor, checked under Spec.                         *)
(***************************************************************************)
\* The execution of block b has ended.
Ended(b) ==
    bpc[b] \in {"ParseFailed", "FetchFailed", "RenderFailed", "RewriteFailed", "Done"}

\* The entry fetch of block b failed: the request was answered with an
\* error or could not be sent.
FetchFailed(b) == response[b] \in {"null", "nouser"}

\* C1: in every execution, static or live, a failed entry fetch ends with
\* the block displaying 'Failed to fetch Harvest report.', which is not
\* what a fetch returning zero entries displays.
C1_FailedFetchIsDisplayed ==
    \A b \in Blocks :
        (Ended(b) /\ FetchFailed(b))
        => el[b] = setText("Failed to fetch Harvest report.")

\* The tokens of a block's source that are the flag, in whatever case, and
\* the source without them: the query the flag was added to.
IsFlag(token) == toLowerCase(token) = StaticFlag

Flagged(b) == \E i \in 1..Len(splitWs(trim(blockSource[b]))) :
                  IsFlag(splitWs(trim(blockSource[b]))[i])

WithoutFlags(b) ==
    Join(SelectSeq(splitWs(trim(blockSource[b])), LAMBDA t : ~IsFlag(t)), <<" ">>)

\* The execution of block b has parsed its source, or failed to.
Started(b) == bpc[b] # "Received"

\* C12: the flag is position-independent and never changes the query:
\* wherever a valid query carries --static (before, between or after its
\* tokens, in any case, any number of times), the processor parses the
\* query that the source without the flag parses to.
C12_FlagNeverChangesQuery ==
    \A b \in Blocks :
        (/\ Started(b) /\ Flagged(b)
         /\ parseQuery(WithoutFlags(b), now, now, tz, lenient).ok)
        => (/\ bpc[b] # "ParseFailed"
            /\ SameQuery(query[b], parseQuery(WithoutFlags(b), now, now, tz, lenient)))

\* The execution of block b met a failure: of parsing, of fetching, of
\* rendering, or of finding, reading or modifying the document.
Failed(b) ==
    \/ bpc[b] \in {"ParseFailed", "FetchFailed", "RenderFailed", "RewriteFailed"}
    \/ FetchFailed(b)

\* The element of block b displays the text of an error.
ShowsError(b) ==
    /\ el[b].report = NoReport
    /\ \/ el[b].text \in {"Failed to fetch Harvest report.",
                          "Error: Could not find file to write static report.",
                          "Error: Could not read file section to write static report."}
       \/ el[b].text = "Error processing Harvest query: " /\ el[b].error.msg # ""

\* C19: no failure escapes the processor: every execution in which the
\* parsing, the fetching, the rendering, the finding of the file or of the
\* section, the reading or the modifying fails comes to its end, and with
\* the block displaying the text of an error.
C19_EveryFailureIsDisplayed ==
    \A b \in Blocks : (Ended(b) /\ Failed(b)) => ShowsError(b)

\* The messages of the errors parseQuery throws.
ParseErrors ==
    {"Query is too short.", "Invalid query type: . Must be LIST or SUMMARY.",
     "Invalid PAST format. Use 'PAST <number> DAYS'.", "Invalid FROM...TO format.",
     "Invalid date format in FROM...TO. Use YYYY-MM-DD.",
     "Unknown time range specifier: "}

\* C20: when parsing fails, with the flag or without it, the block displays
\* a text with the message of the parse error, the entries are not fetched
\* and the document is not rewritten in that execution, which has ended.
C20_ParseFailureIsTerminal ==
    /\ [](\A b \in Blocks :
            bpc[b] = "ParseFailed"
            => (/\ el[b].text = "Error processing Harvest query: "
                /\ el[b].error.msg \in ParseErrors
                /\ el[b].report = NoReport
                /\ response[b] = "none"
                /\ pendingDoc[b] = <<>>))
    /\ [][\A b \in Blocks :
            bpc[b] = "ParseFailed"
            => (/\ bpc'[b] = bpc[b] /\ el'[b] = el[b]
                /\ response'[b] = response[b] /\ pendingDoc'[b] = pendingDoc[b])]_vars

\* C20's case: a block with the flag and a block without it have both
\* failed to parse, each displaying its own parse error, while the document
\* is as it was.
C20_Witness ==
    /\ bpc[1] = "ParseFailed" /\ bpc[2] = "ParseFailed"
    /\ hasStaticFlag(1) /\ ~hasStaticFlag(2)
    /\ el[1].error.msg = "Unknown time range specifier: "
    /\ el[2].error.msg = "Query is too short."
    /\ doc = InitialDoc(DocSources(blockOf, blockSource))

\* C21: the document is modified only by an execution whose source carried
\* the flag and whose entries were fetched: an execution without the flag
\* never writes, and one with the flag whose fetch failed ends displaying
\* 'Failed to fetch Harvest report.' and writes nothing.
C21_OnlyStaticSuccessWrites ==
    \A b \in Blocks :
        /\ calls[b].modify > 0 => (hasStaticFlag(b) /\ response[b] = "data")
        /\ (hasStaticFlag(b) /\ Ended(b) /\ FetchFailed(b))
           => (/\ el[b] = setText("Failed to fetch Harvest report.")
               /\ calls[b].modify = 0 /\ pendingDoc[b] = <<>>)

\* The other execution.
Other(b) == CHOOSE c \in Blocks : c # b

\* The document as it was when the executions started.
FirstDoc == InitialDoc(DocSources(blockOf, blockSource))

\* In document d the lines lineStart..lineEnd of document old (0-based)
\* are replaced by a frozen rendering of execution b, the original query
\* text and the rendered report between the tags of its container, and
\* every other line of old is in d, unchanged and in the same order.
RewrittenFrom(d, old, b) ==
    LET lineStart == SectionInfo(b).lineStart
        lineEnd   == SectionInfo(b).lineEnd
        shift     == Len(d) - Len(old)
    IN  /\ \A i \in 1..lineStart : d[i] = old[i]
        /\ \A i \in (lineEnd + 2)..Len(old) : d[i + shift] = old[i]
        /\ Len(d) = lineStart + 7 + (Len(old) - lineEnd - 1)
        /\ d[lineStart + 1].text = "<div class=\"harvest-static-container\">"
        /\ d[lineStart + 4].source = blockSource[b]
        /\ d[lineStart + 6].report = renderReport(entries[b].list, query[b])
        /\ d[lineStart + 7].text = "</div>"
        /\ \A i \in (lineStart + 1)..(lineStart + 7) : d[i].text # "(fence)"

\* C22: after a successful static execution with no other writer, the
\* document is the document that was read with exactly the lines
\* lineStart..lineEnd of the block replaced by the frozen rendering (the
\* original query text and the rendered report); the lines before and
\* after are unchanged and in their order.
C22_RewriteReplacesTheBlockOnly ==
    \A b \in Blocks :
        (bpc[b] = "Done" /\ hasStaticFlag(b) /\ calls[Other(b)].modify = 0)
        => (fileContent[b] = FirstDoc /\ RewrittenFrom(doc, fileContent[b], b))

\* C22's case: the second block of the document, a list of two entries,
\* has been frozen while the first block was not.
C22_Witness ==
    /\ bpc[2] = "Done" /\ hasStaticFlag(2) /\ blockOf[2] = 2
    /\ calls[1].modify = 0 /\ calls[2].modify = 1
    /\ Len(entries[2].list) = 2
    /\ doc # FirstDoc
    /\ doc[1] = FirstDoc[1] /\ doc[3] = FirstDoc[3] /\ doc[Len(doc)] = FirstDoc[9]

\* The texts displayed when the file or the section is not found.
NotLocatedTexts ==
    {"Error: Could not find file to write static report.",
     "Error: Could not read file section to write static report."}

\* C23: when, with the flag, the file of the document or the section of the
\* block cannot be located, the block displays an error text, and the
\* document is not read and not written by the execution: its content is
\* unchanged.
C23_NotLocatedLeavesTheDocument ==
    \A b \in Blocks :
        /\ (bpc[b] = "RewriteFailed" /\ calls[b].read = 0)
           => (/\ hasStaticFlag(b)
               /\ el[b].text \in NotLocatedTexts
               /\ el[b].error = NoError /\ el[b].report = NoReport)
        /\ (bpc[b] = "RewriteFailed" /\ el[b].text \in NotLocatedTexts)
           => (/\ calls[b].read = 0 /\ calls[b].modify = 0
               /\ fileContent[b] = <<>> /\ pendingDoc[b] = <<>>
               /\ calls[Other(b)].modify = 0 => doc = FirstDoc)

\* C23's case: a static execution fetched two entries and did not find its
\* section, after the other found its own and has called vault.modify.
C23_Witness ==
    /\ bpc[1] = "RewriteFailed" /\ hasStaticFlag(1)
    /\ el[1].text = "Error: Could not read file section to write static report."
    /\ Len(entries[1].list) = 2 /\ calls[1].read = 0
    /\ bpc[2] = "Modifying" /\ doc = FirstDoc

\* Document d holds the frozen rendering of execution b: its source text,
\* and two lines below it the report rendered from its entries.
HoldsFrozen(d, b) ==
    \E i \in 1..(Len(d) - 2) :
        /\ d[i].text = "<pre><code></code></pre>" /\ d[i].source = blockSource[b]
        /\ d[i + 2].report = renderReport(entries[b].list, query[b])

\* Document d holds the live block k: its source between its fences.
HoldsLive(d, k) ==
    \E i \in 2..(Len(d) - 1) :
        /\ d[i].text = "" /\ d[i].source = DocSources(blockOf, blockSource)[k]
        /\ d[i - 1].text = "(fence) harvest" /\ d[i + 1].text = "(fence)"

\* What execution b, of a block of its own, ends with when it is executed
\* alone: its display, which is its own, and with the flag and a completed
\* write its frozen rendering in the document in place of its block,
\* beside the other block, live or frozen.
AsIfAlone(b) ==
    (bpc[b] = "Done" /\ hasStaticFlag(b))
    => (/\ HoldsFrozen(doc, b)
        /\ ~HoldsLive(doc, blockOf[b])
        /\ HoldsLive(doc, blockOf[Other(b)]) \/ HoldsFrozen(doc, Other(b)))

\* C24: the executions of several blocks of one document (told apart here
\* by their texts) are independent:
\* in every interleaving of their steps each block ends as it would have
\* ended alone, in its display and, with the flag, in its frozen rendering
\* in the document.
C24_BlocksAreIndependent ==
    (/\ blockOf[2] = 2 /\ blockSource[1] # blockSource[2]
     /\ \A b \in Blocks : Ended(b))
    => \A b \in Blocks : AsIfAlone(b)

\* C25: the static rewrite is a read-modify-write that is not atomic, and
\* the last write wins: whatever another writer made of the document
\* between the read and the modify, a completed modify leaves the document
\* as the execution's rewritten copy of the content it read, and reports
\* no error.
C25_LastWriteWins ==
    [][\A b \in Blocks :
          (bpc[b] = "Modifying" /\ bpc'[b] = "Done")
          => (/\ RewrittenFrom(doc', fileContent[b], b)
              /\ el'[b] = setText("Loading static Harvest report..."))]_vars

\* C25's case: both executions read the document as it first was, the
\* first wrote its copy, and then the second wrote its own: the first
\* block's frozen rendering is no longer in the document, and neither
\* execution displays an error.
C25_Witness ==
    /\ blockOf[2] = 2 /\ blockSource[1] # blockSource[2]
    /\ bpc[1] = "Done" /\ bpc[2] = "Done"
    /\ calls[1].modify = 1 /\ calls[2].modify = 1
    /\ fileContent[1] = FirstDoc /\ fileContent[2] = FirstDoc
    /\ HoldsFrozen(doc, 2) /\ ~HoldsFrozen(doc, 1) /\ HoldsLive(doc, 1)
    /\ el[1].error = NoError /\ el[2].error = NoError

\* What belongs to the execution of block b.
OwnState(b) == <<bpc[b], el[b], query[b], response[b], entries[b], pendingDoc[b],
             calls[b], fileContent[b]>>

\* C27: nothing is retried.  An execution calls the fetcher at most once and
\* only with a query that was parsed; it calls vault.modify at most once and
\* only with the document in which the report it rendered replaces the
\* block; and once it has ended it takes no further step.
C27_NothingIsRetried ==
    /\ [](\A b \in Blocks :
            /\ calls[b].getTimeEntries <= 1
            /\ calls[b].getTimeEntries = 1 => (query[b].ok /\ bpc[b] # "ParseFailed")
            /\ bpc[b] = "ParseFailed" => calls[b] = NoCalls
            /\ calls[b].modify <= 1
            /\ calls[b].modify = 1
               => (/\ renderReport(entries[b].list, query[b]).kind # "threw"
                   /\ RewrittenFrom(pendingDoc[b], fileContent[b], b)))
    /\ [][\A b \in Blocks :
            Ended(b) => OwnState(b)' = OwnState(b)]_vars

\* C27's case: one execution has fetched once, rendered, and had its one
\* vault.modify rejected, and the other has ended on a parse error without
\* a call.
C27_Witness ==
    \E b \in Blocks :
        /\ bpc[b] = "RewriteFailed"
        /\ calls[b] = [getTimeEntries |-> 1, read |-> 1, modify |-> 1]
        /\ el[b].error.msg = "vault.modify rejected"
        /\ bpc[Other(b)] = "ParseFailed" /\ calls[Other(b)] = NoCalls

\* The loading text of the execution of block b.
LoadingText(b) ==
    IF hasStaticFlag(b) THEN "Loading static Harvest report..."
    ELSE "Loading Harvest report..."

\* C28: the report is not rendered before the fetch has completed: while
\* the request is pending the element holds the loading text and nothing
\* else, nothing has been read or prepared for the document, and the
\* execution does not move until the request settles, however long that
\* takes.
C28_LoadingUntilTheFetchReturns ==
    /\ [](\A b \in Blocks :
            /\ bpc[b] = "Fetching"
               => (/\ el[b] = Display(LoadingText(b), NoError, NoReport)
                   /\ pendingDoc[b] = <<>> /\ fileContent[b] = <<>>
                   /\ calls[b] = [getTimeEntries |-> 1, read |-> 0, modify |-> 0])
            /\ (el[b].report # NoReport \/ pendingDoc[b] # <<>>)
               => response[b] \in {"data", "null", "nouser"})
    /\ [][\A b \in Blocks :
            bpc[b] = "Fetching"
            => \/ OwnState(b)' = OwnState(b)
               \/ bpc'[b] = "Resolved" /\ el'[b] = el[b]
                  /\ response'[b] \in {"data", "null"}]_vars

\* C28's case: the request of one execution is still pending, its element
\* holding the loading text, after the other execution has displayed its
\* report.
C28_Witness ==
    \E b \in Blocks :
        /\ bpc[b] = "Fetching" /\ el[b].text = LoadingText(b)
        /\ bpc[Other(b)] = "Done" /\ el[Other(b)].report # NoReport

\* The five outcomes of the execution of block b.
ParseErrorShown(b) == bpc[b] = "ParseFailed" /\ ShowsError(b)

FetchFailureShown(b) ==
    bpc[b] = "FetchFailed" /\ el[b] = Display("Failed to fetch Harvest report.", NoError, NoReport)

RewriteErrorShown(b) == bpc[b] = "RewriteFailed" /\ ShowsError(b)

ReportDisplayed(b) == bpc[b] = "Done" /\ ~hasStaticFlag(b) /\ el[b].report # NoReport

DocumentRewritten(b) == bpc[b] = "Done" /\ hasStaticFlag(b) /\ calls[b].modify = 1

Outcomes(b) ==
    {o \in 1..5 : \/ o = 1 /\ ParseErrorShown(b)
                  \/ o = 2 /\ FetchFailureShown(b)
                  \/ o = 3 /\ RewriteErrorShown(b)
                  \/ o = 4 /\ ReportDisplayed(b)
                  \/ o = 5 /\ DocumentRewritten(b)}

\* C29: every execution whose awaited calls have all settled has come to
\* exactly one of five outcomes: the parse error shown, the fetch failure
\* shown, the rewrite error shown, the report displayed, or the document
\* rewritten.
C29_EveryExecutionEndsInOneOutcome ==
    \A b \in Blocks : Ended(b) => Cardinality(Outcomes(b)) = 1

\* The executions that completed a write of the document.
Writers == {b \in Blocks : bpc[b] = "Done" /\ calls[b].modify = 1}

\* C30: a static block is frozen exactly once, also when the document was
\* viewed twice and two executions run for the same block: at most one of
\* them writes, and after a write the document is the first document with
\* the lines of the block, and no other line, replaced by the frozen
\* rendering, the live block being gone.
C30_FrozenExactlyOnce ==
    blockOf[2] = 1
    => (/\ Cardinality(Writers) <= 1
        /\ \A b \in Writers : RewrittenFrom(doc, FirstDoc, b) /\ ~HoldsLive(doc, 1))

(***************************************************************************)
(* Claims about the renderer, checked under SpecRender.                    *)
(***************************************************************************)
\* renderReport has been applied.
Rendered == container.kind # "none"

\* A summary of at least one entry has been asked for and rendered.
SummaryAsked == Rendered /\ rQuery.type = SUMMARY /\ Len(rEntries) > 0

\* The hours of the entries of a project, and of all entries, counted from
\* the entries.
RECURSIVE HoursFrom(_, _)
HoursFrom(i, name) ==
    IF i > Len(rEntries) THEN 0
    ELSE (IF rEntries[i].project.name = name THEN rEntries[i].hours ELSE 0)
         + HoursFrom(i + 1, name)

RECURSIVE AllHoursFrom(_)
AllHoursFrom(i) ==
    IF i > Len(rEntries) THEN 0 ELSE rEntries[i].hours + AllHoursFrom(i + 1)

\* The project names of the entries, and the position of the first entry
\* of a project.
ProjectNames == {rEntries[i].project.name : i \in 1..Len(rEntries)}

FirstEntryOf(name) ==
    CHOOSE i \in 1..Len(rEntries) :
        /\ rEntries[i].project.name = name
        /\ \A j \in 1..(i - 1) : rEntries[j].project.name # name

\* The sum of the values of projectTotals, a string counting as nothing.
RECURSIVE SumOfTotals(_)
SumOfTotals(obj) ==
    IF Len(obj) = 0 THEN 0
    ELSE (IF obj[1].value.type = "number" THEN obj[1].value.n ELSE 0)
         + SumOfTotals(Tail(obj))

\* C13: for every non-empty sequence of entries, the per-project totals of
\* the summary are numbers that sum to exactly the hours of all entries,
\* whatever the project names are.
C13_ProjectTotalsSumToTotal ==
    SummaryAsked
    => (/\ \A i \in 1..Len(projectTotals(rEntries, <<>>)) :
              projectTotals(rEntries, <<>>)[i].value.type = "number"
        /\ SumOfTotals(projectTotals(rEntries, <<>>)) = AllHoursFrom(1))

\* The sum of the numerators of the widths of the bars from the i-th on.
RECURSIVE WidthsFrom(_)
WidthsFrom(i) ==
    IF i > Len(container.bars) THEN 0
    ELSE container.bars[i].width.num + WidthsFrom(i + 1)

\* C14: in the summary each project's bar is as wide as its hours divided
\* by the total hours, times 100; the widths sum to 100% when the total is
\* above 0; and when the total is 0 every width is 0% and nothing is
\* divided by 0.
C14_WidthsAreShares ==
    SummaryAsked
    => (/\ container.kind = "summary"
        /\ \A i \in 1..Len(container.bars) :
              /\ container.bars[i].width.den # 0
              /\ IF AllHoursFrom(1) > 0
                 THEN /\ container.bars[i].width.den = AllHoursFrom(1)
                      /\ container.bars[i].width.num
                         = HoursFrom(1, container.bars[i].name) * 100
                 ELSE container.bars[i].width.num = 0
        /\ AllHoursFrom(1) > 0 => WidthsFrom(1) = 100 * AllHoursFrom(1))

\* C15: the summary lists the projects by total hours, descending, and two
\* projects of equal total hours in the order of their first entries, for
\* every project name.
C15_SortedAndStable ==
    (SummaryAsked /\ container.kind = "summary")
    => \A i, j \in 1..Len(container.bars) :
           i < j =>
               LET first  == container.bars[i].name
                   second == container.bars[j].name
               IN  /\ HoursFrom(1, first) >= HoursFrom(1, second)
                   /\ HoursFrom(1, first) = HoursFrom(1, second)
                      => FirstEntryOf(first) < FirstEntryOf(second)

\* C16: the summary has exactly one bar and one legend item for every
\* project name of the entries, with the hours of all entries of that
\* name, whatever their project ids.
C16_OneTotalPerName ==
    SummaryAsked
    => (/\ container.kind = "summary"
        /\ Len(container.bars) = Cardinality(ProjectNames)
        /\ Len(container.legend) = Cardinality(ProjectNames)
        /\ \A name \in ProjectNames :
              /\ \E i \in 1..Len(container.bars) :
                    /\ container.bars[i].name = name
                    /\ container.bars[i].hours = toFixed2(HoursFrom(1, name))
              /\ \E i \in 1..Len(container.legend) :
                    /\ container.legend[i].name = name
                    /\ container.legend[i].hours = toFixed2(HoursFrom(1, name)))

\* C17: for LIST and for SUMMARY, no entries render only the fixed message
\* 'No time entries found for the selected period.': no table, no heading,
\* no total and no chart.
C17_EmptyRendersMessageOnly ==
    (Rendered /\ Len(rEntries) = 0)
    => (/\ container.message = "No time entries found for the selected period."
        /\ container.kind \notin {"list", "summary"}
        /\ container.rows = <<>> /\ container.total = <<>>
        /\ container.bars = <<>> /\ container.legend = <<>>)

\* C17's case: a SUMMARY of no entries has been rendered.
C17_Witness ==
    /\ Rendered /\ Len(rEntries) = 0 /\ rQuery.type = SUMMARY
    /\ container.message # ""

\* hours, counted in hundredths, written with 2 decimals.
TwoDecimals(hours) ==
    NumStr(hours \div 100)
    \o <<".", DigitChars[((hours % 100) \div 10) + 1], DigitChars[(hours % 10) + 1]>>

\* C18: a LIST of at least one entry renders a table with exactly one row
\* per entry, in the order of the entries, row i holding entry i's project
\* name, task name, spent date and hours with 2 decimals.
C18_ListRowsAreTheEntries ==
    (Rendered /\ rQuery.type = LIST /\ Len(rEntries) > 0)
    => (/\ container.kind = "list"
        /\ Len(container.rows) = Len(rEntries)
        /\ \A i \in 1..Len(rEntries) :
              container.rows[i] = <<rEntries[i].project.name, rEntries[i].task.name,
                                    rEntries[i].spent_date, TwoDecimals(rEntries[i].hours)>>)

\* C18's case: a LIST of three entries has been rendered, two of them of
\* the same project, the earlier of which has the later date and hours
\* below a tenth.
C18_Witness ==
    /\ Rendered /\ rQuery.type = LIST /\ Len(rEntries) = 3
    /\ rEntries[1].project.name = rEntries[3].project.name
    /\ rEntries[1].project.name # rEntries[2].project.name
    /\ rEntries[1].spent_date = "2025-01-02" /\ rEntries[3].spent_date = "2025-01-01"
    /\ rEntries[1].hours = 5
    /\ container.rows[1][4] = <<"0", ".", "0", "5">>
    /\ Len(container.rows) = 3

\* The palette of the summary.
Palette == <<"#84b65a", "#c25956", "#59a7c2", "#c29b59", "#8e59c2", "#c2598e", "#5ac28a">>

\* C31: in a summary the bar at position i of the order rendered has color
\* i mod 7 of the palette of 7 colors, counting positions from 0, and the
\* legend lists the projects in the order of the bars, each with the color
\* of its bar; rendering the same entries again gives the same summary.
C31_ColorsCycleByPosition ==
    (SummaryAsked /\ container.kind = "summary")
    => (/\ \A i \in 1..Len(container.bars) :
              container.bars[i].color = Palette[((i - 1) % 7) + 1]
        /\ Len(container.legend) = Len(container.bars)
        /\ \A i \in 1..Len(container.bars) :
              /\ container.legend[i].name = container.bars[i].name
              /\ container.legend[i].color = container.bars[i].color
        /\ container = renderReport(rEntries, rQuery))

\* C31's case: a summary of nine projects, not in the order of their
\* entries, whose eighth and ninth bars have the first two colors again.
C31_Witness ==
    /\ SummaryAsked /\ container.kind = "summary"
    /\ Len(container.bars) = 9
    /\ container.bars[1].name # rEntries[1].project.name
    /\ container.bars[8].color = "#84b65a" /\ container.legend[8].color = "#84b65a"
    /\ container.bars[9].color = "#c25956"
    /\ container.bars[7].color = "#5ac28a"

(***************************************************************************)
(* Claims about the running timer, checked under SpecTimer.                *)
(***************************************************************************)
\* C26: whenever an entry of the user is running in the service, the Stop
\* timer command sends the stop request for that entry, and the command
\* shows 'No timer is currently running.' only when none is running.
C26_StopCommandStopsTheRunningTimer ==
    /\ (lastStop.did # "none" /\ lastStop.service # 0)
       => (lastStop.did = "sent" /\ lastStop.id = lastStop.service)
    /\ lastStop.did = "noTimer" => lastStop.service = 0

\* The status bar and runningTimer agree: the text of a running entry with
\* that entry in runningTimer, or the text of no timer with null.
Agree ==
    \/ /\ statusBar.text = "Harvest: project - task (hours h)"
       /\ runningTimer # 0 /\ statusBar.entry = runningTimer
    \/ /\ statusBar.text = "Harvest: no timer running"
       /\ runningTimer = 0 /\ statusBar.entry = 0

\* C33: once a call of updateRunningTimer has completed, the status bar
\* and runningTimer agree; and the call that completes sets both from its
\* own response, whatever calls were made after it and are still in
\* flight.
C33_StatusBarAgreesWithRunningTimer ==
    /\ [](IF statusBar.text = "Harvest" THEN runningTimer = 0 ELSE Agree)
    /\ [][\A p \in PollIds :
            (polls[p].state = "answered" /\ polls'[p].state = "idle")
            => (/\ runningTimer' = polls[p].running
                /\ statusBar'.entry = polls[p].running
                /\ Agree')]_vars

\* C33's case: two calls overlapped; the one made after the timer was
\* stopped completed first, and the one answered before the stop completed
\* last: the status bar and runningTimer show the entry that is no longer
\* running.
C33_Witness ==
    /\ "Timer stopped." \in notices
    /\ service = 0 /\ runningTimer = 1 /\ statusBar.entry = 1
    /\ \A p \in PollIds : polls[p].state = "idle"
    /\ stop.state = "idle"

\* C32: a call of startTimer sends at most one timer-changing request:
\* the restart of an entry of today with the chosen project and task when
\* the user's entries of today hold one, and the creation of a new entry
\* only when they hold none.
C32_StartTimerRestartsOrCreates ==
    /\ Len(lastStart) <= 1
    /\ \A i \in 1..Len(lastStart) :
        /\ lastStart[i].kind = "restart" => lastStart[i].id \in lastStart[i].matching
        /\ lastStart[i].kind = "create" => lastStart[i].matching = {}

\* C38: after its refresh toggleTimer does one of two things: it sends the
\* stop request for the entry the refresh returned, or, the refresh having
\* returned none, it opens the project picker; it stops no other entry.
C38_ToggleStopsTheRefreshedTimer ==
    /\ lastToggle.did \in {"none", "stop", "picker"}
    /\ lastToggle.did = "stop" =>
          lastToggle.refreshed # 0 /\ lastToggle.id = lastToggle.refreshed
    /\ lastToggle.did = "picker" => lastToggle.refreshed = 0

\* A request of this step: a call that was not awaiting one now does.
Sends ==
    \/ \E p \in PollIds : polls[p].state # "sent" /\ polls'[p].state = "sent"
    \/ stop.state # "sent" /\ stop'.state = "sent"
    \/ starting.state # "listing" /\ starting'.state = "listing"
    \/ starting.state # "changing" /\ starting'.state = "changing"
    \/ identity # "sent" /\ identity' = "sent"
    \/ fetching.state # "sent" /\ fetching'.state = "sent"

\* C35: no step sends a request while the token or the account id is
\* empty; while userId is null no step sends the request of getTimeEntries
\* or of updateRunningTimer, a call of getTimeEntries returns the empty
\* list, and but for the return of a request sent earlier runningTimer and
\* the status bar stay as they are.
C35_NoRequestWithoutCredentialsOrUser ==
    [][/\ ~credentials' => ~Sends
       /\ userId = 0 =>
            /\ \A p \in PollIds : polls'[p].state = "sent" => polls[p].state = "sent"
            /\ fetching'.state = "sent" => fetching.state = "sent"
            /\ (fetching.state = "idle" /\ fetching' # fetching)
                   => fetching' = [state |-> "idle", got |-> "empty"]
            /\ (\A p \in PollIds : polls[p].state # "answered")
                   => UNCHANGED <<runningTimer, statusBar>>]_vars

C35_Witness ==
    /\ userId = 0
    /\ credentials
    /\ fetching = [state |-> "idle", got |-> "empty"]
    /\ "Harvest User ID not found. Cannot fetch your time entries." \in notices
    /\ runningTimer # 0
    /\ statusBar.entry = runningTimer
    /\ \A p \in PollIds : polls[p].state = "idle"

(***************************************************************************)
(* The claims about the project list.                                      *)
(***************************************************************************)

\* The ids and the records of a list of projects.
Ids(projects) == {projects[i].id : i \in 1..Len(projects)}

Records(projects) == {projects[i] : i \in 1..Len(projects)}

\* C36: projectCache never holds two projects of one id and is sorted by
\* name; a call without forceRefresh that finds the cache non-empty sends
\* no request and leaves the cache as it is; every other call, when it
\* returns, replaces the cache with the projects it fetched, an empty list
\* when its requests failed, the managed record standing for an id that is
\* both among the managed and among the recent projects.
C36_CacheIsDedupedSortedAndReplaced ==
    /\ [](/\ \A i, j \in 1..Len(projectCache) :
                projectCache[i].id = projectCache[j].id => i = j
          /\ \A i, j \in 1..Len(projectCache) :
                i < j => localeCompare(projectCache[i].name, projectCache[j].name) <= 0)
    /\ [][\A c \in FetchIds :
            LET f == fetches'[c]
            IN  /\ ( /\ fetches[c].state \in {"idle", "returned"}
                     /\ f # fetches[c]
                     /\ Len(projectCache) > 0
                     /\ ~f.forceRefresh )
                   => f.cached /\ ~f.sent /\ f.state = "returned"
                /\ (f # fetches[c] /\ f.state = "returned") =>
                      IF f.cached
                      THEN projectCache' = projectCache /\ ~f.sent
                      ELSE /\ Ids(projectCache') = Ids(f.allProjects) \cup Ids(f.recent)
                           /\ \A i \in 1..Len(projectCache') :
                                 IF projectCache'[i].id \in Ids(f.allProjects)
                                 THEN projectCache'[i] \in Records(f.allProjects)
                                 ELSE projectCache'[i] \in Records(f.recent)
                /\ (f # fetches[c] /\ f.state \notin {"idle", "returned"})
                      => projectCache' = projectCache]_vars

C36_Witness ==
    /\ projectCache = <<Project(2, "a", TRUE), Project(3, "a", FALSE), Project(1, "c", TRUE)>>
    /\ fetches[1].state = "returned"
    /\ fetches[1].forceRefresh
    /\ 1 \in Ids(fetches[1].recent)

\* The concatenation of the pages added.
RECURSIVE Concat(_)
Concat(pages) ==
    IF Len(pages) = 0 THEN <<>> ELSE pages[1].projects \o Concat(Tail(pages))

\* getManagedProjects has returned in call c.
ManagedReturned(c) == fetches[c].state \in {"recent", "returned"} /\ ~fetches[c].cached

\* What holds of getManagedProjects whatever made it stop: the pages
\* requested are 1, 2, ... in order, each once, a page after the first one
\* only when the response before it reported that many, and allProjects is
\* the concatenation of the pages added; once it has returned, every page
\* requested was added but the one that failed.
PagesInOrder(c) ==
    LET f == fetches[c]
        n == Len(f.requested)
    IN  /\ \A i \in 1..n : f.requested[i] = i
        /\ \A i \in 2..n : i <= f.pages[i - 1].total_pages
        /\ f.allProjects = Concat(f.pages)
        /\ ManagedReturned(c) =>
              n >= 1 /\ Len(f.pages) = (IF f.failed THEN n - 1 ELSE n)

\* C37: getManagedProjects requests the pages 1, 2, ... in order, each at
\* most once, and returns the concatenation of the pages fetched; it stops
\* at the first failed page, or after the page whose number equals the
\* total_pages of the last successful response.
C37_StopsAtTotalPages ==
    \A c \in FetchIds :
        /\ PagesInOrder(c)
        /\ (ManagedReturned(c) /\ ~fetches[c].failed)
              => Len(fetches[c].requested) = fetches[c].totalPages

\* C37 as amended: it stops at the first failed page, or after the first
\* page whose number is at least the total_pages its response reports.
C37_StopsOnceTotalPagesReached ==
    \A c \in FetchIds :
        /\ PagesInOrder(c)
        /\ (ManagedReturned(c) /\ ~fetches[c].failed)
              => Len(fetches[c].requested) >= fetches[c].totalPages

C37_Witness ==
    /\ fetches[1].state = "returned"
    /\ fetches[1].requested = <<1, 2>>
    /\ ~fetches[1].failed
    /\ fetches[1].totalPages = 2
    /\ fetches[1].allProjects
          = <<Project(1, "b", TRUE), Project(2, "a", TRUE), Project(1, "c", TRUE)>>

=============================================================================
